---- MODULE Spec2Model ----
(***************************************************************************)
(* Portfolio valuation and performance analytics of portfolio-manager      *)
(* (backend/app/services/performance.py).                                  *)
(*                                                                         *)
(* Several specifications share this module:                                 *)
(*   SpecFifo  the loop of PerformanceService._calculate_fifo_cost_basis,  *)
(*             one step per transaction of the argument list;              *)
(*   Spec      PerformanceService.get_portfolio_history applied to a       *)
(*             snapshot of the Transaction and Price tables;               *)
(*   SpecPerformance                                                       *)
(*             PerformanceService.get_portfolio_performance applied to a   *)
(*             snapshot of the two tables;                                 *)
(*   SpecSummary                                                           *)
(*             PerformanceService.get_portfolio_summary applied to a       *)
(*             snapshot of the two tables;                                 *)
(*   SpecMetrics                                                           *)
(*             PerformanceService.calculate_metrics applied to arguments   *)
(*             drawn from bounded sets.                                    *)
(*                                                                         *)
(* Units, prices and values are Python floats in the source.  They are     *)
(* modelled as integers (fixed-point amounts), so rounding is not part of  *)
(* this model.  Dates are day numbers; a datetime is a tick number, with   *)
(* TicksPerDay ticks to the calendar day.  A units amount u stands for     *)
(* u / UnitScale units, so that int() of a units total is a truncation.    *)
(***************************************************************************)
EXTENDS Integers, Sequences, FiniteSets, TLC

VARIABLES
    \* _calculate_fifo_cost_basis
    transactions,        \* the argument: list of (unit_trust_id, txn_type, units, price_per_unit, date)
    i,                   \* number of list elements the for loop has consumed
    buy_lots,            \* defaultdict(deque): unit_trust_id -> sequence of <<units_remaining, price_per_unit>>
    total_cost_basis,    \* first component of the returned tuple
    per_fund_cost_basis, \* second component of the returned tuple
    fifo_pc,             \* "idle" (not called) | "loop" | "done" (returned)
    \* get_portfolio_history
    transaction_table,   \* rows of Transaction, in id order
    price_table,         \* rows of Price
    history,             \* the get_portfolio_history call: its days argument and its outcome
    \* get_portfolio_performance
    performance,         \* the get_portfolio_performance call: its days argument and its outcome
    \* get_portfolio_summary
    portfolio_summary,   \* the get_portfolio_summary call: its outcome
    \* calculate_metrics
    metrics_bundle,      \* the calculate_metrics call: its arguments and its outcome
    \* app/api
    requests             \* the API requests in flight or answered, by request number

fifo_vars == <<transactions, i, buy_lots, total_cost_basis, per_fund_cost_basis, fifo_pc>>
store_vars == <<transaction_table, price_table>>
vars == <<transactions, i, buy_lots, total_cost_basis, per_fund_cost_basis, fifo_pc,
          transaction_table, price_table, history, performance, portfolio_summary, metrics_bundle,
          requests>>

----------------------------------------------------------------------------
(* Bounds and input domains *)

MaxLen == 3            \* longest argument list of _calculate_fifo_cost_basis
Assets == {1, 2}       \* unit_trust_id values
UnitValues == {1, 2, 3}  \* units of one transaction (Field(gt=0))
PriceValues == {1, 2}  \* price_per_unit / price values
TxnTypes == {"buy", "sell"}

\* Sum of f over the finite set S (f a function defined on S).
RECURSIVE SumOver(_, _)
SumOver(S, f) ==
    IF S = {} THEN 0
    ELSE LET x == CHOOSE y \in S : TRUE IN f[x] + SumOver(S \ {x}, f)

Max(a, b) == IF a >= b THEN a ELSE b
Min(a, b) == IF a <= b THEN a ELSE b

----------------------------------------------------------------------------
(* PerformanceService._calculate_fifo_cost_basis *)

\* One element of the argument list.  The date is carried but never read
\* by the function (the loop names it _txn_date).
FifoTxn(id, type, units, price, date) ==
    [unit_trust_id |-> id, txn_type |-> type, units |-> units,
     price_per_unit |-> price, date |-> date]

\* defaultdict lookup: a missing key reads as an empty deque.
LotsOf(lots, id) == IF id \in DOMAIN lots THEN lots[id] ELSE <<>>

\* defaultdict store: the key exists afterwards.
WithLots(lots, id, q) ==
    [a \in (DOMAIN lots) \cup {id} |-> IF a = id THEN q ELSE lots[a]]

\* A sell that takes the newest lot first.
RECURSIVE ConsumeLotsNewestFirst(_, _)
ConsumeLotsNewestFirst(q, remaining_to_sell) ==
    IF remaining_to_sell > 0 /\ q # <<>>
    THEN LET newest_lot == q[Len(q)]
             lot_units == newest_lot[1]
             front == SubSeq(q, 1, Len(q) - 1)
         IN  IF lot_units <= remaining_to_sell
             THEN ConsumeLotsNewestFirst(front, remaining_to_sell - lot_units)
             ELSE Append(front, <<lot_units - remaining_to_sell, newest_lot[2]>>)
    ELSE q

\* A sell that keeps its unfilled excess as a negative lot.
RECURSIVE ConsumeLotsCarryExcess(_, _)
ConsumeLotsCarryExcess(q, remaining_to_sell) ==
    IF remaining_to_sell > 0
    THEN IF q = <<>> THEN << <<0 - remaining_to_sell, 0>> >>
         ELSE LET oldest_lot == Head(q)
                  lot_units == oldest_lot[1]
              IN  IF lot_units <= remaining_to_sell
                  THEN ConsumeLotsCarryExcess(Tail(q), remaining_to_sell - lot_units)
                  ELSE << <<lot_units - remaining_to_sell, oldest_lot[2]>> >> \o Tail(q)
    ELSE q

\* A sell that stops after the first lot it empties.
ConsumeLotsOneLot(q, remaining_to_sell) ==
    IF remaining_to_sell > 0 /\ q # <<>>
    THEN LET oldest_lot == Head(q)
             lot_units == oldest_lot[1]
         IN  IF lot_units <= remaining_to_sell
             THEN Tail(q)
             ELSE << <<lot_units - remaining_to_sell, oldest_lot[2]>> >> \o Tail(q)
    ELSE q

\* The while loop of a sell: consume from the oldest lot first.
RECURSIVE ConsumeLots(_, _)
ConsumeLots(q, remaining_to_sell) ==
    IF remaining_to_sell > 0 /\ q # <<>>
    THEN LET oldest_lot == Head(q)
             lot_units == oldest_lot[1]
         IN  IF lot_units <= remaining_to_sell
             THEN ConsumeLots(Tail(q), remaining_to_sell - lot_units)
             ELSE << <<lot_units - remaining_to_sell, oldest_lot[2]>> >> \o Tail(q)
    ELSE q

\* The lots a sell leaves for its fund.
SellLots(lots, id, units) == ConsumeLots(LotsOf(lots, id), units)

\* The lots a buy leaves for its fund.
BuyLots(lots, id, units, price) == Append(LotsOf(lots, id), <<units, price>>)

\* sum(lot_units * lot_price for lot_units, lot_price in lots)
RECURSIVE FundCost(_)
FundCost(q) == IF q = <<>> THEN 0 ELSE Head(q)[1] * Head(q)[2] + FundCost(Tail(q))

InitFifo ==
    /\ \E n \in 0..MaxLen :
         \E ids \in [1..n -> Assets], types \in [1..n -> TxnTypes],
            us \in [1..n -> UnitValues], ps \in [1..n -> PriceValues] :
              transactions = [k \in 1..n |-> FifoTxn(ids[k], types[k], us[k], ps[k], k)]
    /\ i = 0
    /\ buy_lots = <<>>
    /\ total_cost_basis = 0
    /\ per_fund_cost_basis = <<>>
    /\ fifo_pc = "loop"
    /\ transaction_table = <<>>
    /\ price_table = {}
    /\ history = [status |-> "idle", points |-> <<>>, days |-> 0]
    /\ performance = [status |-> "idle", days |-> 0]
    /\ portfolio_summary = [status |-> "idle"]
    /\ metrics_bundle = [status |-> "idle"]
    /\ requests = <<>>

\* Loop body, txn_type == 'buy': append a new lot.
FifoBuy ==
    /\ fifo_pc = "loop"
    /\ i < Len(transactions)
    /\ LET t == transactions[i + 1]
       IN  /\ t.txn_type = "buy"
           /\ buy_lots' = WithLots(buy_lots, t.unit_trust_id,
                                   BuyLots(buy_lots, t.unit_trust_id, t.units, t.price_per_unit))
    /\ i' = i + 1
    /\ UNCHANGED <<transactions, total_cost_basis, per_fund_cost_basis, fifo_pc>>
    /\ UNCHANGED <<transaction_table, price_table, history, performance, portfolio_summary, metrics_bundle>>
    /\ UNCHANGED requests

\* Loop body, else branch (sell): remove units from the oldest lots first.
FifoSell ==
    /\ fifo_pc = "loop"
    /\ i < Len(transactions)
    /\ LET t == transactions[i + 1]
       IN  /\ t.txn_type # "buy"
           /\ buy_lots' = WithLots(buy_lots, t.unit_trust_id,
                                   SellLots(buy_lots, t.unit_trust_id, t.units))
    /\ i' = i + 1
    /\ UNCHANGED <<transactions, total_cost_basis, per_fund_cost_basis, fifo_pc>>
    /\ UNCHANGED <<transaction_table, price_table, history, performance, portfolio_summary, metrics_bundle>>
    /\ UNCHANGED requests

\* After the loop: cost of the remaining lots, per fund and in total.
FifoReturn ==
    /\ fifo_pc = "loop"
    /\ i = Len(transactions)
    /\ per_fund_cost_basis' = [a \in DOMAIN buy_lots |-> FundCost(buy_lots[a])]
    /\ total_cost_basis' = SumOver(DOMAIN buy_lots, [a \in DOMAIN buy_lots |-> FundCost(buy_lots[a])])
    /\ fifo_pc' = "done"
    /\ UNCHANGED <<transactions, i, buy_lots>>
    /\ UNCHANGED <<transaction_table, price_table, history, performance, portfolio_summary, metrics_bundle>>
    /\ UNCHANGED requests

NextFifo == FifoBuy \/ FifoSell \/ FifoReturn

SpecFifo == InitFifo /\ [][NextFifo]_vars

----------------------------------------------------------------------------
(* The Transaction and Price tables (app/models) and the clock *)

TicksPerDay == 2       \* datetime values per calendar day that the model tells apart
MaxDay == 3            \* calendar days 0..MaxDay carry rows
Today == 2             \* datetime.now(timezone.utc).date() at the time of the call
MaxTxns == 2           \* most rows of the Transaction table
MaxPrices == 2         \* most rows of the Price table
MaxLookback == 2       \* largest days argument (the API admits 1..3650)
AddBuyRows == 1        \* most rows of a log to which the buy of C9 is added
UnitScale == 2         \* units amounts count halves of a unit
HistoryUnitValues == {1, 2}
TimesOfDay == {0}      \* times of day of the rows of the snapshot (0 is midnight)

\* datetime of a calendar day and a time of day; .date() of a datetime.
At(day, tod) == day * TicksPerDay + tod
DateOf(ts) == ts \div TicksPerDay

\* A Transaction row with the columns the queries of the service select
\* (unit_trust_id, transaction_type, units, price_per_unit, transaction_date).
TransactionRow(id, type, units, price, ts) ==
    [unit_trust_id |-> id, transaction_type |-> type, units |-> units,
     price_per_unit |-> price, transaction_date |-> ts]

PriceRow(id, ts, price) == [unit_trust_id |-> id, date |-> ts, price |-> price]

\* UniqueConstraint('unit_trust_id', 'date'): one row per fund and datetime.
UniqueFundDate(rows) ==
    \A p, q \in rows : (p.unit_trust_id = q.unit_trust_id /\ p.date = q.date) => p = q

SetMax(S) == CHOOSE x \in S : \A y \in S : y <= x
SetMin(S) == CHOOSE x \in S : \A y \in S : x <= y

----------------------------------------------------------------------------
(* PerformanceService.get_portfolio_history *)

\* select(...).order_by(Transaction.transaction_date): the rows by ascending
\* datetime, rows of equal datetime in table order.
RECURSIVE InsertByDate(_, _)
InsertByDate(sorted, row) ==
    IF sorted = <<>> THEN <<row>>
    ELSE IF sorted[Len(sorted)].transaction_date <= row.transaction_date
         THEN Append(sorted, row)
         ELSE Append(InsertByDate(SubSeq(sorted, 1, Len(sorted) - 1), row), sorted[Len(sorted)])

RECURSIVE OrderByDate(_)
OrderByDate(table) ==
    IF table = <<>> THEN <<>>
    ELSE InsertByDate(OrderByDate(SubSeq(table, 1, Len(table) - 1)), table[Len(table)])

\* signed_units = t.units if t.transaction_type == 'buy' else -t.units
SignedUnits(t) == IF t.transaction_type = "buy" THEN t.units ELSE 0 - t.units

TxnDates(txns) == {DateOf(txns[k].transaction_date) : k \in DOMAIN txns}
TxnFunds(txns) == {txns[k].unit_trust_id : k \in DOMAIN txns}

\* The change of the last row of the fund and date instead of the sum.
RECURSIVE GroupLast(_, _, _, _)
GroupLast(txns, d, a, k) ==
    IF k = 0 THEN 0
    ELSE IF DateOf(txns[k].transaction_date) = d /\ txns[k].unit_trust_id = a
         THEN SignedUnits(txns[k])
         ELSE GroupLast(txns, d, a, k - 1)

\* groupby(['date', 'unit_trust_id'])['units_change'].sum(), pivoted, with
\* fillna(0): the summed change of a fund on a date, 0 where it has none.
RECURSIVE GroupSum(_, _, _, _)
GroupSum(txns, d, a, k) ==
    IF k = 0 THEN 0
    ELSE GroupSum(txns, d, a, k - 1)
         + (IF DateOf(txns[k].transaction_date) = d /\ txns[k].unit_trust_id = a
            THEN SignedUnits(txns[k]) ELSE 0)

TxnPivot(txns, d, a) == GroupSum(txns, d, a, Len(txns))

\* The index of a pivot: its dates in ascending order.
RECURSIVE SortedDates(_)
SortedDates(S) ==
    IF S = {} THEN <<>>
    ELSE LET m == SetMax(S) IN Append(SortedDates(S \ {m}), m)

\* txn_pivot.cumsum(): running total down the index, at index position k.
RECURSIVE CumSum(_, _, _, _)
CumSum(txns, index, a, k) ==
    IF k = 0 THEN 0
    ELSE CumSum(txns, index, a, k - 1) + TxnPivot(txns, index[k], a)

\* Holdings as they are after the last transaction, whatever the date.
HoldingsRowFinal(txns, a, d) ==
    LET index == SortedDates(TxnDates(txns))
    IN  CumSum(txns, index, a, Len(index))

\* The change of the date alone, without the running total.
HoldingsRowNoCumSum(txns, a, d) == TxnPivot(txns, d, a)

\* The cumsum row of an index date.
HoldingsRow(txns, a, d) ==
    LET index == SortedDates(TxnDates(txns))
        k == CHOOSE j \in DOMAIN index : index[j] = d
    IN  CumSum(txns, index, a, k)

\* holdings_over_time.reindex(all_dates).ffill().fillna(0): walking the dates
\* from first, a date without a row takes the value of the date before it;
\* dates before the first row are 0.
RECURSIVE HoldingsOverTime(_, _, _, _)
HoldingsOverTime(txns, a, first, d) ==
    IF d < first THEN 0
    ELSE IF d \in TxnDates(txns) THEN HoldingsRow(txns, a, d)
    ELSE HoldingsOverTime(txns, a, first, d - 1)

\* earliest_txn_date = min(t.transaction_date for t in transactions), a datetime
EarliestTxnDate(txns) == SetMin({txns[k].transaction_date : k \in DOMAIN txns})

\* select(Price...).where(Price.date >= earliest_txn_date)
FetchedPrices(txns, table) == {p \in table : p.date >= EarliestTxnDate(txns)}

PriceDates(prices) == {DateOf(p.date) : p \in prices}
PriceFunds(prices) == {p.unit_trust_id : p \in prices}

\* prices_df.pivot(index='date', columns='unit_trust_id') raises ValueError
\* when two rows share the calendar date and the fund.
PivotRaises(prices) ==
    \E p, q \in prices :
        p # q /\ p.unit_trust_id = q.unit_trust_id /\ DateOf(p.date) = DateOf(q.date)

\* prices_pivot.reindex(all_dates).ffill(): <<price>> or <<>> for NaN.  A
\* date without a price of the fund takes the value of the date before it.
RECURSIVE PricesPivot(_, _, _, _)
PricesPivot(prices, a, first, d) ==
    IF d < first THEN <<>>
    ELSE LET here == {p \in prices : p.unit_trust_id = a /\ DateOf(p.date) = d}
         IN  IF here # {} THEN <<(CHOOSE p \in here : TRUE).price>>
             ELSE PricesPivot(prices, a, first, d - 1)

\* First and last day of all_dates.
AllDatesStart(txns, prices) == Min(SetMin(TxnDates(txns)), SetMin(PriceDates(prices)))
AllDatesEnd(txns, prices, today) ==
    Max(Max(SetMax(TxnDates(txns)), SetMax(PriceDates(prices))), today)

\* holdings_over_time.clip(lower=0)
Clip(h) == IF h < 0 THEN 0 ELSE h

\* (positive_holdings * prices_pivot).fillna(0) for one fund on one date
FundValue(txns, prices, a, first, d) ==
    LET price == PricesPivot(prices, a, first, d)
    IN  IF price = <<>> THEN 0
        ELSE Clip(HoldingsOverTime(txns, a, first, d)) * price[1]

\* .sum(axis=1) over the common funds
PortfolioValue(txns, prices, first, d) ==
    LET common_funds == TxnFunds(txns) \cap PriceFunds(prices)
    IN  SumOver(common_funds, [a \in common_funds |-> FundValue(txns, prices, a, first, d)])

\* No restriction to the window.
FirstKeptAll(first, start_date) == first

\* portfolio_values[portfolio_values.index >= start_date_date]: the first
\* date that is kept.
FirstKept(first, start_date) == Max(first, start_date)

\* The list that is returned: one PortfolioHistory per remaining date.
HistoryPoints(txns, prices, today, days) ==
    LET first == AllDatesStart(txns, prices)
        last == AllDatesEnd(txns, prices, today)
        from == FirstKept(first, today - days)
    IN  [k \in 1..(last - from + 1) |->
            [date |-> from + k - 1,
             value |-> PortfolioValue(txns, prices, first, from + k - 1)]]

\* get_portfolio_history without its two early returns: pandas raises
\* KeyError on the columns of an empty frame.
PortfolioHistoryOfNoGuard(ttable, ptable, today, days) ==
    LET txns == OrderByDate(ttable)
        prices == IF txns = <<>> THEN {} ELSE FetchedPrices(txns, ptable)
    IN  IF txns = <<>> \/ prices = {} \/ PivotRaises(prices)
        THEN [status |-> "raised", points |-> <<>>]
        ELSE [status |-> "returned", points |-> HistoryPoints(txns, prices, today, days)]

\* The outcome of get_portfolio_history on a snapshot of the two tables.
PortfolioHistoryOf(ttable, ptable, today, days) ==
    LET txns == OrderByDate(ttable)
    IN  IF txns = <<>> THEN [status |-> "returned", points |-> <<>>]
        ELSE LET prices == FetchedPrices(txns, ptable)
             IN  IF prices = {} THEN [status |-> "returned", points |-> <<>>]
                 ELSE IF PivotRaises(prices) THEN [status |-> "raised", points |-> <<>>]
                 ELSE [status |-> "returned",
                       points |-> HistoryPoints(txns, prices, today, days)]

TransactionRows ==
    {TransactionRow(a, type, u, 1, At(d, tod)) :
        a \in Assets, type \in TxnTypes, u \in HistoryUnitValues, d \in 0..MaxDay, tod \in TimesOfDay}

PriceRows ==
    {PriceRow(a, At(d, tod), p) : a \in Assets, d \in 0..MaxDay, tod \in TimesOfDay, p \in PriceValues}

\* The Price tables of at most n rows, one row per fund and datetime.
RECURSIVE PriceTablesUpTo(_)
PriceTablesUpTo(n) ==
    IF n = 0 THEN {{}}
    ELSE LET smaller == PriceTablesUpTo(n - 1)
         IN  smaller \cup {S \cup {p} : S \in smaller, p \in PriceRows}

PriceTables == {S \in PriceTablesUpTo(MaxPrices) : UniqueFundDate(S)}

TransactionTables == UNION {[1..n -> TransactionRows] : n \in 0..MaxTxns}

\* A snapshot of the store: the Transaction rows in id order and the Price
\* rows, one per fund and datetime.  get_portfolio_history never reads
\* price_per_unit, which is 1 in every row drawn here.
Init ==
    /\ transaction_table \in TransactionTables
    /\ price_table \in PriceTables
    /\ history = [status |-> "idle", points |-> <<>>, days |-> 0]
    /\ performance = [status |-> "idle", days |-> 0]
    /\ portfolio_summary = [status |-> "idle"]
    /\ metrics_bundle = [status |-> "idle"]
    /\ transactions = <<>>
    /\ i = 0
    /\ buy_lots = <<>>
    /\ total_cost_basis = 0
    /\ per_fund_cost_basis = <<>>
    /\ fifo_pc = "idle"
    /\ requests = <<>>

\* GET /portfolio/history?days=N on the snapshot.
GetPortfolioHistory(days) ==
    /\ history.status = "idle"
    /\ LET outcome == PortfolioHistoryOf(transaction_table, price_table, Today, days)
       IN  history' = [status |-> outcome.status, points |-> outcome.points, days |-> days]
    /\ UNCHANGED <<transaction_table, price_table, performance, portfolio_summary, metrics_bundle>>
    /\ UNCHANGED requests
    /\ UNCHANGED fifo_vars

Next == \E days \in 1..MaxLookback : GetPortfolioHistory(days)

Spec == Init /\ [][Next]_vars

\* Snapshots whose rows carry a time of day: Transaction.transaction_date
\* and Price.date are DateTime columns.  One fund, the days 0 and 1, at
\* most one price per calendar date.
ClockTimes == 0..(TicksPerDay - 1)

ClockedTransactionRows ==
    {TransactionRow(SetMin(Assets), type, u, 1, At(d, tod)) :
        type \in TxnTypes, u \in HistoryUnitValues, d \in 0..1, tod \in ClockTimes}

ClockedTransactionTables == UNION {[1..n -> ClockedTransactionRows] : n \in 0..MaxTxns}

ClockedPriceTables ==
    {S \in SUBSET {PriceRow(SetMin(Assets), At(d, tod), p) : d \in 0..1, tod \in ClockTimes, p \in PriceValues} :
        \A p, q \in S : DateOf(p.date) = DateOf(q.date) => p = q}

InitTimeOfDay ==
    /\ transaction_table \in ClockedTransactionTables
    /\ price_table \in ClockedPriceTables
    /\ history = [status |-> "idle", points |-> <<>>, days |-> 0]
    /\ performance = [status |-> "idle", days |-> 0]
    /\ portfolio_summary = [status |-> "idle"]
    /\ metrics_bundle = [status |-> "idle"]
    /\ transactions = <<>>
    /\ i = 0
    /\ buy_lots = <<>>
    /\ total_cost_basis = 0
    /\ per_fund_cost_basis = <<>>
    /\ fifo_pc = "idle"
    /\ requests = <<>>

SpecTimeOfDay == InitTimeOfDay /\ [][Next]_vars

----------------------------------------------------------------------------
(* PerformanceService.get_portfolio_summary, calculate_metrics and         *)
(* get_portfolio_performance                                               *)

\* A float quotient, kept exact as numerator and denominator.
Ratio(num, den) == [num |-> num, den |-> den]

\* None of an optional field; a value x of the field is <<x>>.
None == <<>>

\* Transaction.units * Transaction.price_per_unit
Amount(t) == t.units * t.price_per_unit

\* func.sum(units * price_per_unit) over the rows of one transaction_type;
\* no row gives NULL, which reads as 0.0.
TotalOfType(ttable, type) ==
    SumOver(DOMAIN ttable,
            [k \in DOMAIN ttable |->
                IF ttable[k].transaction_type = type THEN Amount(ttable[k]) ELSE 0])

\* Net units that count the buys only.
NetUnitsBuysOnly(ttable, a) ==
    SumOver(DOMAIN ttable,
            [k \in DOMAIN ttable |->
                IF ttable[k].unit_trust_id = a /\ ttable[k].transaction_type = "buy"
                THEN ttable[k].units ELSE 0])

\* net_units_expr grouped by unit_trust_id
NetUnits(ttable, a) ==
    SumOver(DOMAIN ttable,
            [k \in DOMAIN ttable |->
                IF ttable[k].unit_trust_id # a THEN 0
                ELSE IF ttable[k].transaction_type = "buy" THEN ttable[k].units
                ELSE IF ttable[k].transaction_type = "sell" THEN 0 - ttable[k].units
                ELSE 0])

\* select(Price.price).where(unit_trust_id == a).order_by(Price.date.desc())
\* .limit(1): <<price>>, or <<>> for None.
LatestPrice(ptable, a) ==
    LET rows == {p \in ptable : p.unit_trust_id = a}
    IN  IF rows = {} THEN <<>>
        ELSE <<(CHOOSE p \in rows : \A q \in rows : q.date <= p.date).price>>

\* int(total_units): the whole units of a non-negative units amount.
Truncate(units) == units \div UnitScale

\* get_portfolio_summary on a snapshot of the two tables.
PortfolioSummaryOf(ttable, ptable) ==
    LET total_invested == TotalOfType(ttable, "buy")
        total_withdrawn == TotalOfType(ttable, "sell")
        holdings == TxnFunds(ttable)
        positive_holdings == {a \in holdings : NetUnits(ttable, a) > 0}
        current_value ==
            SumOver(positive_holdings,
                    [a \in positive_holdings |->
                        LET latest_price == LatestPrice(ptable, a)
                        IN  IF latest_price # <<>> /\ latest_price[1] # 0
                            THEN NetUnits(ttable, a) * latest_price[1]
                            ELSE 0])
        total_gain_loss == current_value + total_withdrawn - total_invested
    IN  [total_invested |-> total_invested,
         total_withdrawn |-> total_withdrawn,
         current_value |-> current_value,
         total_gain_loss |-> total_gain_loss,
         roi_percentage |-> IF total_invested > 0
                            THEN Ratio(total_gain_loss * 100, total_invested)
                            ELSE Ratio(0, 1),
         total_units |-> Truncate(SumOver(positive_holdings,
                                          [a \in positive_holdings |-> NetUnits(ttable, a)])),
         holding_count |-> Cardinality(positive_holdings)]

\* The lots after the first k elements of the argument list.
RECURSIVE FifoLotsAfter(_, _)
FifoLotsAfter(fifo_transactions, k) ==
    IF k = 0 THEN <<>>
    ELSE LET lots == FifoLotsAfter(fifo_transactions, k - 1)
             t == fifo_transactions[k]
         IN  IF t.txn_type = "buy"
             THEN WithLots(lots, t.unit_trust_id,
                           BuyLots(lots, t.unit_trust_id, t.units, t.price_per_unit))
             ELSE WithLots(lots, t.unit_trust_id, SellLots(lots, t.unit_trust_id, t.units))

\* cost_basis, _ = _calculate_fifo_cost_basis(fifo_transactions)
FifoCostBasis(fifo_transactions) ==
    LET lots == FifoLotsAfter(fifo_transactions, Len(fifo_transactions))
    IN  SumOver(DOMAIN lots, [a \in DOMAIN lots |-> FundCost(lots[a])])

\* Exact arithmetic on float quotients: Q reduces to lowest terms with a
\* positive denominator.
RECURSIVE GCD(_, _)
GCD(a, b) == IF b = 0 THEN a ELSE GCD(b, a % b)

Abs(x) == IF x < 0 THEN 0 - x ELSE x

Q(num, den) ==
    LET g == GCD(Abs(num), Abs(den))
        sign == IF den < 0 THEN 0 - 1 ELSE 1
    IN  Ratio(sign * (num \div g), sign * (den \div g))

\* Sums and products of quotients in lowest terms; common factors are
\* removed before multiplying, which keeps the integers small.
RAdd(a, b) ==
    LET g == GCD(a.den, b.den)
    IN  Q(a.num * (b.den \div g) + b.num * (a.den \div g), (a.den \div g) * b.den)
RSub(a, b) == RAdd(a, Ratio(0 - b.num, b.den))
RMul(a, b) ==
    LET g == GCD(Abs(a.num), b.den)
        h == GCD(Abs(b.num), a.den)
    IN  Q((a.num \div g) * (b.num \div h), (a.den \div h) * (b.den \div g))
RDiv(a, b) == RMul(a, Q(b.den, b.num))
RLess(a, b) == a.num * b.den < b.num * a.den
REq(a, b) == a.num * b.den = b.num * a.den

RECURSIVE RSum(_)
RSum(q) == IF q = <<>> THEN Q(0, 1) ELSE RAdd(Head(q), RSum(Tail(q)))

\* risk_free_rate: float = 0.02
DefaultRiskFreeRate == Q(2, 100)

\* A volatility: not-a-number, or the non-negative number whose square is
\* squared (the standard deviation is a square root, kept by its square).
Volatility(nan, squared) == [nan |-> nan, squared |-> squared]

\* A degenerate bundle whose two return fields are 0 as well.
EmptyMetricsZeroReturns(net_return, unrealized_roi) ==
    [daily_return |-> Q(0, 1), volatility |-> Volatility(FALSE, Q(0, 1)),
     max_drawdown |-> Q(0, 1),
     sharpe_ratio |-> None, net_return |-> Ratio(0, 1), unrealized_roi |-> Ratio(0, 1),
     twr_annualized |-> None, mwr_annualized |-> None,
     best_day |-> None, worst_day |-> None, statistics |-> FALSE]

\* empty_metrics, and the bundle of a curve with fewer than two positive
\* points.
EmptyMetrics(net_return, unrealized_roi) ==
    [daily_return |-> Q(0, 1), volatility |-> Volatility(FALSE, Q(0, 1)),
     max_drawdown |-> Q(0, 1),
     sharpe_ratio |-> None, net_return |-> net_return, unrealized_roi |-> unrealized_roi,
     twr_annualized |-> None, mwr_annualized |-> None,
     best_day |-> None, worst_day |-> None, statistics |-> FALSE]

\* df.sort_values('date')
RECURSIVE SortByDate(_)
SortByDate(points) ==
    IF points = <<>> THEN <<>>
    ELSE LET front == SortByDate(SubSeq(points, 1, Len(points) - 1))
             last == points[Len(points)]
             before == SelectSeq(front, LAMBDA h : h.date <= last.date)
             after == SelectSeq(front, LAMBDA h : h.date > last.date)
         IN  before \o <<last>> \o after

\* df_positive['value'].pct_change(): NaN (<<>>) in the first row, then the
\* change from the row before.
PctChange(df_positive) ==
    [k \in DOMAIN df_positive |->
        IF k = 1 THEN <<>>
        ELSE <<Q(df_positive[k].value - df_positive[k - 1].value, df_positive[k - 1].value)>>]

\* A daily-return column that keeps the change of every row, transaction
\* days included.
ValidReturnsAllDays(df_positive, txn_date_set) ==
    LET daily_return == PctChange(df_positive)
        rows == SelectSeq([k \in DOMAIN df_positive |-> k], LAMBDA k : daily_return[k] # <<>>)
    IN  [j \in DOMAIN rows |-> daily_return[rows[j]][1]]

\* df_no_txn['daily_return'].dropna(): the changes of the rows whose date
\* is not a transaction date.
ValidReturns(df_positive, txn_date_set) ==
    LET daily_return == PctChange(df_positive)
        rows == SelectSeq([k \in DOMAIN df_positive |-> k],
                          LAMBDA k : df_positive[k].date \notin txn_date_set
                                     /\ daily_return[k] # <<>>)
    IN  [j \in DOMAIN rows |-> daily_return[rows[j]][1]]

\* Series.mean() of at least one number.
Mean(q) == RDiv(RSum(q), Q(Len(q), 1))

\* float(Series.std()) * np.sqrt(252): the sample standard deviation
\* (ddof=1) is NaN for a single number.
StdTimesSqrt252(q) ==
    IF Len(q) < 2 THEN Volatility(TRUE, Q(0, 1))
    ELSE LET mean == Mean(q)
             squares == [k \in DOMAIN q |-> RMul(RSub(q[k], mean), RSub(q[k], mean))]
         IN  Volatility(FALSE, RMul(RDiv(RSum(squares), Q(Len(q) - 1, 1)), Q(252, 1)))

\* volatility > 0 (False for NaN)
VolatilityPositive(volatility) == ~volatility.nan /\ volatility.squared.num > 0

RECURSIVE RMax(_)
RMax(q) ==
    IF Len(q) = 1 THEN q[1]
    ELSE LET m == RMax(Tail(q)) IN IF RLess(m, Head(q)) THEN Head(q) ELSE m

RECURSIVE RMin(_)
RMin(q) ==
    IF Len(q) = 1 THEN q[1]
    ELSE LET m == RMin(Tail(q)) IN IF RLess(Head(q), m) THEN Head(q) ELSE m

\* df_positive['value'].expanding().max() at row k
RECURSIVE RollingMax(_, _)
RollingMax(df_positive, k) ==
    IF k = 1 THEN df_positive[1].value
    ELSE Max(RollingMax(df_positive, k - 1), df_positive[k].value)

\* A drawdown measured from the first value instead of the running maximum.
DrawdownFromFirst(df_positive) ==
    RMin([k \in DOMAIN df_positive |->
             Q(df_positive[k].value - df_positive[1].value, df_positive[1].value)])

\* float(((value - rolling_max) / rolling_max).min())
MaxDrawdown(df_positive) ==
    RMin([k \in DOMAIN df_positive |->
             Q(df_positive[k].value - RollingMax(df_positive, k), RollingMax(df_positive, k))])

RECURSIVE RProd(_)
RProd(q) == IF q = <<>> THEN Q(1, 1) ELSE RMul(Head(q), RProd(Tail(q)))

\* An annualized return float((1 + total_return) ** (365 / days) - 1),
\* kept by its growth factor 1 + total_return and its days.
Annualized(linked_return, days) == [linked_return |-> linked_return, days |-> days]

\* A return that ignores the transaction dates: last value / first value.
TwrUnlinked(df_positive, txn_date_set) ==
    IF Len(df_positive) < 2 THEN None
    ELSE LET days == df_positive[Len(df_positive)].date - df_positive[1].date
         IN  IF days <= 0 THEN None
             ELSE <<Annualized(Q(df_positive[Len(df_positive)].value, df_positive[1].value), days)>>

\* _calculate_twr
Twr(df_positive, txn_date_set) ==
    IF Len(df_positive) < 2 THEN None
    ELSE LET n == Len(df_positive)
             df_dates == {df_positive[k].date : k \in 1..n}
             relevant_txn_dates == SortedDates(txn_date_set \cap df_dates)
             days == df_positive[n].date - df_positive[1].date
         IN  IF relevant_txn_dates = <<>>
             THEN IF days <= 0 THEN None
                  ELSE <<Annualized(Q(df_positive[n].value, df_positive[1].value), days)>>
             ELSE LET first_txn_date == relevant_txn_dates[1]
                      pre_first_txn == SelectSeq(df_positive, LAMBDA h : h.date < first_txn_date)
                      first_sub_period ==
                          IF Len(pre_first_txn) >= 1
                          THEN <<Q(pre_first_txn[Len(pre_first_txn)].value, pre_first_txn[1].value)>>
                          ELSE <<>>
                      middle_sub_periods ==
                          [j \in DOMAIN relevant_txn_dates |->
                              LET txn_date == relevant_txn_dates[j]
                                  txn_day_rows == SelectSeq(df_positive, LAMBDA h : h.date = txn_date)
                                  start_val == txn_day_rows[1].value
                                  period_df ==
                                      IF j + 1 <= Len(relevant_txn_dates)
                                      THEN SelectSeq(df_positive,
                                                     LAMBDA h : h.date >= txn_date
                                                                /\ h.date < relevant_txn_dates[j + 1])
                                      ELSE SelectSeq(df_positive, LAMBDA h : h.date >= txn_date)
                              IN  Q(period_df[Len(period_df)].value, start_val)]
                      sub_period_returns == first_sub_period \o middle_sub_periods
                  IN  IF sub_period_returns = <<>> THEN None
                      ELSE IF days <= 0 THEN None
                      ELSE <<Annualized(RProd(sub_period_returns), days)>>

\* What pyxirr.xirr can do with a series of both signs: return a finite
\* rate, return None, return a non-finite value, or raise.
XirrOutcomes == {"finite", "none", "nonfinite", "raises"}

\* A series whose final inflow is always dated today.
MwrSeriesToday(cash_flows, current_value, today) ==
    IF cash_flows = <<>> THEN <<>>
    ELSE LET dates == [k \in DOMAIN cash_flows |-> cash_flows[k][1]]
             amounts == [k \in DOMAIN cash_flows |-> cash_flows[k][2]]
             all_dates == IF current_value > 0 THEN Append(dates, today) ELSE dates
             all_amounts == IF current_value > 0 THEN Append(amounts, current_value) ELSE amounts
         IN  IF (\E k \in DOMAIN all_amounts : all_amounts[k] < 0)
                /\ (\E k \in DOMAIN all_amounts : all_amounts[k] > 0)
             THEN <<[dates |-> all_dates, amounts |-> all_amounts]>>
             ELSE <<>>

\* The series handed to pyxirr.xirr, <<>> when the solver is not called.
MwrSeries(cash_flows, current_value, today) ==
    IF cash_flows = <<>> THEN <<>>
    ELSE LET dates == [k \in DOMAIN cash_flows |-> cash_flows[k][1]]
             amounts == [k \in DOMAIN cash_flows |-> cash_flows[k][2]]
             latest == SetMax({dates[k] : k \in DOMAIN dates})
             final == IF today <= latest THEN latest + 1 ELSE today
             all_dates == IF current_value > 0 THEN Append(dates, final) ELSE dates
             all_amounts == IF current_value > 0 THEN Append(amounts, current_value) ELSE amounts
             has_negative == \E k \in DOMAIN all_amounts : all_amounts[k] < 0
             has_positive == \E k \in DOMAIN all_amounts : all_amounts[k] > 0
         IN  IF has_negative /\ has_positive
             THEN <<[dates |-> all_dates, amounts |-> all_amounts]>>
             ELSE <<>>

\* A solver call whose exception is not caught.
MwrUncaught(cash_flows, current_value, today, xirr) ==
    LET series == MwrSeries(cash_flows, current_value, today)
    IN  IF series = <<>> THEN None
        ELSE IF xirr = "finite" THEN <<[xirr |-> series[1]]>>
        ELSE IF xirr = "raises" THEN <<[raised |-> series[1]]>>
        ELSE None

\* _calculate_mwr: None, or <<[xirr |-> series]>> standing for the finite
\* rate the solver returns for the series.
Mwr(cash_flows, current_value, today, xirr) ==
    LET series == MwrSeries(cash_flows, current_value, today)
    IN  IF series = <<>> THEN None
        ELSE IF xirr = "finite" THEN <<[xirr |-> series[1]]>>
        ELSE None

\* len(df_positive) < 1: a guard that lets a single positive point through.
TooFewPointsNone(df_positive) == Len(df_positive) < 1

\* len(df_positive) < 2
TooFewPoints(df_positive) == Len(df_positive) < 2

\* calculate_metrics.  today is date.today() and xirr the behaviour of the
\* solver, should _calculate_mwr call it.
CalculateMetrics(history_points, transaction_dates, cash_flows, total_invested, total_withdrawn, current_value, cost_basis, risk_free_rate, today, xirr) ==
    LET net_return == IF total_invested > 0
                      THEN Ratio(current_value + total_withdrawn - total_invested, total_invested)
                      ELSE Ratio(0, 1)
        unrealized_roi == IF cost_basis > 0
                          THEN Ratio(current_value - cost_basis, cost_basis)
                          ELSE Ratio(0, 1)
        df == SortByDate(history_points)
        df_positive == SelectSeq(df, LAMBDA h : h.value > 0)
        txn_date_set == {transaction_dates[k] : k \in DOMAIN transaction_dates}
        valid_returns == ValidReturns(df_positive, txn_date_set)
        is_all_na == valid_returns = <<>>
        daily_return == IF ~is_all_na THEN Mean(valid_returns) ELSE Q(0, 1)
        volatility == IF ~is_all_na THEN StdTimesSqrt252(valid_returns)
                      ELSE Volatility(FALSE, Q(0, 1))
    IN  IF Len(history_points) < 2 THEN EmptyMetrics(net_return, unrealized_roi)
        ELSE IF TooFewPoints(df_positive) THEN EmptyMetrics(net_return, unrealized_roi)
        ELSE [daily_return |-> daily_return,
              volatility |-> volatility,
              max_drawdown |-> MaxDrawdown(df_positive),
              sharpe_ratio |-> IF VolatilityPositive(volatility)
                               THEN <<[excess |-> RSub(RMul(daily_return, Q(252, 1)), risk_free_rate),
                                       volatility |-> volatility]>>
                               ELSE None,
              net_return |-> net_return,
              unrealized_roi |-> unrealized_roi,
              twr_annualized |-> Twr(df_positive, txn_date_set),
              mwr_annualized |-> Mwr(cash_flows, current_value, today, xirr),
              best_day |-> IF Len(valid_returns) > 0 THEN <<RMax(valid_returns)>> ELSE None,
              worst_day |-> IF Len(valid_returns) > 0 THEN <<RMin(valid_returns)>> ELSE None,
              statistics |-> TRUE]

\* The results order_by(Transaction.transaction_date) can give: rows of one
\* datetime come in an order the query does not fix.
OrdersByDate(ttable) ==
    LET n == Len(ttable)
        bijections == {f \in [1..n -> 1..n] : \A j, k \in 1..n : f[j] = f[k] => j = k}
        results == {[k \in 1..n |-> ttable[f[k]]] : f \in bijections}
    IN  {r \in results :
            \A j, k \in 1..n : j < k => r[j].transaction_date <= r[k].transaction_date}

\* get_portfolio_performance after its awaits: summary is what
\* get_portfolio_summary returned, outcome what get_portfolio_history did,
\* txns the rows of the transaction query.
PerformanceFrom(summary, outcome, txns, today, days, xirr) ==
    LET transaction_dates == [k \in DOMAIN txns |-> DateOf(txns[k].transaction_date)]
        cash_flows == [k \in DOMAIN txns |->
                          <<DateOf(txns[k].transaction_date),
                            IF txns[k].transaction_type = "buy"
                            THEN 0 - Amount(txns[k]) ELSE Amount(txns[k])>>]
        fifo_transactions == [k \in DOMAIN txns |->
                                 FifoTxn(txns[k].unit_trust_id, txns[k].transaction_type,
                                         txns[k].units, txns[k].price_per_unit,
                                         DateOf(txns[k].transaction_date))]
        cost_basis == FifoCostBasis(fifo_transactions)
    IN  IF outcome.status = "raised" THEN [status |-> "raised", days |-> days]
        ELSE [status |-> "returned",
              days |-> days,
              summary |-> summary,
              metrics |-> CalculateMetrics(outcome.points, transaction_dates, cash_flows,
                                           summary.total_invested, summary.total_withdrawn,
                                           summary.current_value, cost_basis,
                                           DefaultRiskFreeRate, today, xirr),
              history |-> outcome.points]

\* get_portfolio_performance on a snapshot of the two tables; txns is the
\* result of its own transaction query and xirr the behaviour of the solver.
PortfolioPerformanceOf(ttable, txns, ptable, today, days, xirr) ==
    PerformanceFrom(PortfolioSummaryOf(ttable, ptable),
                    PortfolioHistoryOf(ttable, ptable, today, days), txns, today, days, xirr)

\* Transaction rows with price_per_unit drawn as well, dated up to today.
PerformanceTransactionRows ==
    {TransactionRow(a, type, u, p, At(d, tod)) :
        a \in Assets, type \in TxnTypes, u \in HistoryUnitValues, p \in PriceValues,
        d \in 0..Today, tod \in TimesOfDay}

\* The answer of a request whose solver behaves as xirr, from the answer
\* of the same request with a solver that returns a finite rate: the two
\* differ in mwr_annualized alone (PortfolioPerformanceOf with xirr).
WithXirr(converged, xirr) ==
    IF converged.status = "returned" /\ xirr # "finite"
    THEN [converged EXCEPT !.metrics.mwr_annualized = None]
    ELSE converged

PerformanceTransactionTables ==
    UNION {[1..n -> PerformanceTransactionRows] : n \in 0..MaxTxns}

\* A snapshot of the store, price_per_unit drawn as well.
InitPerformance ==
    /\ transaction_table \in PerformanceTransactionTables
    /\ price_table \in PriceTables
    /\ history = [status |-> "idle", points |-> <<>>, days |-> 0]
    /\ performance = [status |-> "idle", days |-> 0]
    /\ portfolio_summary = [status |-> "idle"]
    /\ metrics_bundle = [status |-> "idle"]
    /\ transactions = <<>>
    /\ i = 0
    /\ buy_lots = <<>>
    /\ total_cost_basis = 0
    /\ per_fund_cost_basis = <<>>
    /\ fifo_pc = "idle"
    /\ requests = <<>>

\* GET /portfolio/performance?days=N answered on the day today.
GetPortfolioPerformanceOn(today, days) ==
    /\ performance.status = "idle"
    /\ \E txns \in OrdersByDate(transaction_table) :
          \E converged \in {PortfolioPerformanceOf(transaction_table, txns, price_table,
                                                    today, days, "finite")} :
              \E xirr \in XirrOutcomes : performance' = WithXirr(converged, xirr)
    /\ UNCHANGED <<transaction_table, price_table, history, portfolio_summary, metrics_bundle>>
    /\ UNCHANGED requests
    /\ UNCHANGED fifo_vars

GetPortfolioPerformance(days) == GetPortfolioPerformanceOn(Today, days)

GetPortfolioSummary ==
    /\ portfolio_summary.status = "idle"
    /\ portfolio_summary' = [status |-> "returned",
                             value |-> PortfolioSummaryOf(transaction_table, price_table)]
    /\ UNCHANGED <<transaction_table, price_table, history, performance, metrics_bundle>>
    /\ UNCHANGED requests
    /\ UNCHANGED fifo_vars

NextSummary == GetPortfolioSummary

SpecSummary == InitPerformance /\ [][NextSummary]_vars

NextPerformance == \E days \in 1..MaxLookback : GetPortfolioPerformance(days)

SpecPerformance == InitPerformance /\ [][NextPerformance]_vars

----------------------------------------------------------------------------
(* One fund with a price on every day, a first purchase on day 0 and a     *)
(* deposit (a second buy) on a later day before the day of the request.    *)

TwrToday == 3          \* the day of the request
TwrDays == 3           \* its days argument: the window opens on day 0
TwrFund == CHOOSE a \in Assets : TRUE
TwrPrices == {100, 110, 121}
TwrFirstUnits == 2
TwrDepositUnits == {1, 2, 4}
TwrDepositDays == 1..(TwrToday - 1)

\* The Price rows of a series: series[d + 1] is the price of day d.
PriceSeriesTable(series) == {PriceRow(TwrFund, At(d, 0), series[d + 1]) : d \in 0..TwrToday}

\* The price of the fund on day d in a table of one row per day.
PriceOfDay(ptable, d) == (CHOOSE p \in ptable : DateOf(p.date) = d).price

\* The Transaction rows: the first purchase, then a deposit of u units on
\* day d, each at the price of its day.
Deposited(ptable, u, d) ==
    <<TransactionRow(TwrFund, "buy", TwrFirstUnits, PriceOfDay(ptable, 0), At(0, 0)),
      TransactionRow(TwrFund, "buy", u, PriceOfDay(ptable, d), At(d, 0))>>

InitTwr ==
    /\ \E series \in [1..(TwrToday + 1) -> TwrPrices] : price_table = PriceSeriesTable(series)
    /\ \E u \in TwrDepositUnits, d \in TwrDepositDays :
          transaction_table = Deposited(price_table, u, d)
    /\ history = [status |-> "idle", points |-> <<>>, days |-> 0]
    /\ performance = [status |-> "idle", days |-> 0]
    /\ portfolio_summary = [status |-> "idle"]
    /\ metrics_bundle = [status |-> "idle"]
    /\ transactions = <<>>
    /\ i = 0
    /\ buy_lots = <<>>
    /\ total_cost_basis = 0
    /\ per_fund_cost_basis = <<>>
    /\ fifo_pc = "idle"
    /\ requests = <<>>

NextTwr == GetPortfolioPerformanceOn(TwrToday, TwrDays)

SpecTwr == InitTwr /\ [][NextTwr]_vars

----------------------------------------------------------------------------
(* calculate_metrics called directly, as the unit tests call it: the       *)
(* arguments are drawn independently of one another.                       *)

MetricsValues == 0..3

\* Equity curves with one point per date, in date order.
AscendingCurves ==
    UNION {{[k \in 1..Cardinality(D) |-> [date |-> SortedDates(D)[k], value |-> v[k]]] :
               v \in [1..Cardinality(D) -> MetricsValues]} : D \in SUBSET (0..MaxDay)}

Reverse(q) == [k \in DOMAIN q |-> q[Len(q) + 1 - k]]

\* The history argument: a curve in date order, or a curve of two points
\* in the reverse order.
MetricsHistories ==
    AscendingCurves \cup {Reverse(h) : h \in {c \in AscendingCurves : Len(c) = 2}}

\* The transaction_dates argument, a list that may repeat a date.
MetricsTransactionDates == {<<>>, <<0>>, <<1, 1>>, <<2, 1>>}

\* The cash_flows argument: (date, amount), negative for a buy.
MetricsCashFlows ==
    {<<>>, << <<0, 0 - 2>> >>, << <<0, 3>> >>, << <<0, 0 - 2>>, <<MaxDay, 1>> >>}

\* (total_invested, total_withdrawn) and (current_value, cost_basis)
MetricsMoneyIn == {<<0, 1>>, <<2, 0>>, <<2, 1>>}
MetricsHoldings == {<<0, 0>>, <<3, 0>>, <<3, 2>>}

MetricsRiskFreeRates == {DefaultRiskFreeRate, Q(0, 1)}

InitMetrics ==
    /\ \E h \in MetricsHistories, td \in MetricsTransactionDates, cf \in MetricsCashFlows,
          m \in MetricsMoneyIn, c \in MetricsHoldings, r \in MetricsRiskFreeRates :
          metrics_bundle = [status |-> "called", history |-> h, transaction_dates |-> td,
                            cash_flows |-> cf, total_invested |-> m[1],
                            total_withdrawn |-> m[2], current_value |-> c[1],
                            cost_basis |-> c[2], risk_free_rate |-> r]
    /\ transaction_table = <<>>
    /\ price_table = {}
    /\ history = [status |-> "idle", points |-> <<>>, days |-> 0]
    /\ performance = [status |-> "idle", days |-> 0]
    /\ portfolio_summary = [status |-> "idle"]
    /\ transactions = <<>>
    /\ i = 0
    /\ buy_lots = <<>>
    /\ total_cost_basis = 0
    /\ per_fund_cost_basis = <<>>
    /\ fifo_pc = "idle"
    /\ requests = <<>>

\* One call of calculate_metrics; xirr is what the solver does if
\* _calculate_mwr reaches it.
CalculateMetricsCall ==
    /\ metrics_bundle.status = "called"
    /\ \E xirr \in XirrOutcomes :
          metrics_bundle' =
              [status |-> "returned",
               history |-> metrics_bundle.history,
               transaction_dates |-> metrics_bundle.transaction_dates,
               cash_flows |-> metrics_bundle.cash_flows,
               total_invested |-> metrics_bundle.total_invested,
               total_withdrawn |-> metrics_bundle.total_withdrawn,
               current_value |-> metrics_bundle.current_value,
               cost_basis |-> metrics_bundle.cost_basis,
               risk_free_rate |-> metrics_bundle.risk_free_rate,
               xirr |-> xirr,
               value |-> CalculateMetrics(metrics_bundle.history,
                                          metrics_bundle.transaction_dates,
                                          metrics_bundle.cash_flows,
                                          metrics_bundle.total_invested,
                                          metrics_bundle.total_withdrawn,
                                          metrics_bundle.current_value,
                                          metrics_bundle.cost_basis,
                                          metrics_bundle.risk_free_rate, Today, xirr)]
    /\ UNCHANGED <<transaction_table, price_table, history, performance, portfolio_summary>>
    /\ UNCHANGED requests
    /\ UNCHANGED fifo_vars

NextMetrics == CalculateMetricsCall

SpecMetrics == InitMetrics /\ [][NextMetrics]_vars

----------------------------------------------------------------------------
(* calculate_metrics called twice on the same arguments.  date.today() is  *)
(* read inside _calculate_mwr at each call; the second call is not made    *)
(* before the first.                                                       *)

MaxCallDay == 3        \* the calls are made on the days Today..MaxCallDay
CallDays == Today..MaxCallDay

RepeatHistories == {h \in AscendingCurves : Len(h) = 2}

InitRepeat ==
    /\ \E h \in RepeatHistories, td \in {<<>>, <<1, 1>>}, cf \in MetricsCashFlows,
          c \in MetricsHoldings :
          metrics_bundle = [status |-> "called", history |-> h, transaction_dates |-> td,
                            cash_flows |-> cf, total_invested |-> 2,
                            total_withdrawn |-> 1, current_value |-> c[1],
                            cost_basis |-> c[2], risk_free_rate |-> DefaultRiskFreeRate]
    /\ transaction_table = <<>>
    /\ price_table = {}
    /\ history = [status |-> "idle", points |-> <<>>, days |-> 0]
    /\ performance = [status |-> "idle", days |-> 0]
    /\ portfolio_summary = [status |-> "idle"]
    /\ transactions = <<>>
    /\ i = 0
    /\ buy_lots = <<>>
    /\ total_cost_basis = 0
    /\ per_fund_cost_basis = <<>>
    /\ fifo_pc = "idle"
    /\ requests = <<>>

\* The bundle of the arguments held in metrics_bundle, the call being made
\* on the day today with a solver that behaves as xirr.
MetricsOfCall(today, xirr) ==
    CalculateMetrics(metrics_bundle.history, metrics_bundle.transaction_dates,
                     metrics_bundle.cash_flows, metrics_bundle.total_invested,
                     metrics_bundle.total_withdrawn, metrics_bundle.current_value,
                     metrics_bundle.cost_basis, metrics_bundle.risk_free_rate, today, xirr)

\* The arguments as the call leaves them: calculate_metrics and its helpers
\* build new lists (dates, amounts, the DataFrame) and assign to none of
\* their arguments.
ArgumentsAfterCall ==
    [history |-> metrics_bundle.history,
     transaction_dates |-> metrics_bundle.transaction_dates,
     cash_flows |-> metrics_bundle.cash_flows,
     total_invested |-> metrics_bundle.total_invested,
     total_withdrawn |-> metrics_bundle.total_withdrawn,
     current_value |-> metrics_bundle.current_value,
     cost_basis |-> metrics_bundle.cost_basis,
     risk_free_rate |-> metrics_bundle.risk_free_rate]

\* The first call, on the day today.
FirstCall(today) ==
    /\ metrics_bundle.status = "called"
    /\ \E xirr \in XirrOutcomes :
          metrics_bundle' =
              [status |-> "returned", arguments |-> ArgumentsAfterCall,
               history |-> ArgumentsAfterCall.history,
               transaction_dates |-> ArgumentsAfterCall.transaction_dates,
               cash_flows |-> ArgumentsAfterCall.cash_flows,
               total_invested |-> ArgumentsAfterCall.total_invested,
               total_withdrawn |-> ArgumentsAfterCall.total_withdrawn,
               current_value |-> ArgumentsAfterCall.current_value,
               cost_basis |-> ArgumentsAfterCall.cost_basis,
               risk_free_rate |-> ArgumentsAfterCall.risk_free_rate,
               today |-> today, xirr |-> xirr, value |-> MetricsOfCall(today, xirr)]
    /\ UNCHANGED <<transaction_table, price_table, history, performance, portfolio_summary>>
    /\ UNCHANGED requests
    /\ UNCHANGED fifo_vars

\* The second call, on the same arguments, on the day today.  pyxirr is a
\* function of its series: on the series of the first call it does what it
\* did then.
SecondCall(today) ==
    /\ metrics_bundle.status = "returned"
    /\ today >= metrics_bundle.today
    /\ \E xirr \in XirrOutcomes :
          /\ MwrSeries(metrics_bundle.cash_flows, metrics_bundle.current_value, today)
                = MwrSeries(metrics_bundle.cash_flows, metrics_bundle.current_value,
                            metrics_bundle.today)
               => xirr = metrics_bundle.xirr
          /\ metrics_bundle' =
                [status |-> "repeated", arguments |-> metrics_bundle.arguments,
                 arguments_again |-> ArgumentsAfterCall,
                 today |-> metrics_bundle.today, xirr |-> metrics_bundle.xirr,
                 value |-> metrics_bundle.value,
                 today_again |-> today, xirr_again |-> xirr,
                 value_again |-> MetricsOfCall(today, xirr)]
    /\ UNCHANGED <<transaction_table, price_table, history, performance, portfolio_summary>>
    /\ UNCHANGED requests
    /\ UNCHANGED fifo_vars

NextRepeat == \E today \in CallDays : FirstCall(today) \/ SecondCall(today)

SpecRepeat == InitRepeat /\ [][NextRepeat]_vars

----------------------------------------------------------------------------
(* app/api/prices.py: the write endpoints of the Price table.  A handler   *)
(* awaits its queries and its commit, so the handlers of two requests      *)
(* interleave between the reads of one and its commit.  A request is       *)
(*   [op, pc, status, id, rows, date, price, found]                        *)
(* with pc "received" | "checked" | "answered", status the HTTP status of  *)
(* the answer (0 before it), id the path parameter, rows the prices of the *)
(* body (or of the provider), date and price the fields of a PriceUpdate   *)
(* (<<>> when unset) and found what the handler keeps from its reads.      *)

MaxRequests == 2
UnknownFund == 3                          \* no UnitTrust row has this id
PriceTimes == 0..(2 * TicksPerDay - 1)    \* the datetimes of days 0 and 1

\* A row of the Price table with its primary key.
StoredPrice(id, row) ==
    [id |-> id, unit_trust_id |-> row.unit_trust_id, date |-> row.date, price |-> row.price]

\* __table_args__ = (UniqueConstraint('unit_trust_id', 'date'),): the
\* statement that would leave two rows with one fund and one datetime
\* raises IntegrityError.
UniqueFundDatetime(table) ==
    \A p, q \in table : (p.unit_trust_id = q.unit_trust_id /\ p.date = q.date) => p.id = q.id

\* The table after INSERT of the rows of q, in order, with fresh keys.
RECURSIVE Inserted(_, _)
Inserted(table, q) ==
    IF q = <<>> THEN table
    ELSE LET id == IF table = {} THEN 1 ELSE SetMax({p.id : p \in table}) + 1
         IN  Inserted(table \cup {StoredPrice(id, Head(q))}, Tail(q))

Request(op, id, rows, date, price) ==
    [op |-> op, pc |-> "received", status |-> 0, id |-> id, rows |-> rows,
     date |-> date, price |-> price, found |-> <<>>]

\* POST /prices with a PriceCreate body
CreatePriceRequests ==
    {Request("create_price", 0, <<PriceRow(a, ts, 1)>>, <<>>, <<>>) :
        a \in {TwrFund, UnknownFund}, ts \in PriceTimes}

\* POST /prices/bulk with a list of PriceCreate
BulkCreateRequests ==
    {Request("bulk_create_prices", 0, <<PriceRow(TwrFund, ts, 1), PriceRow(TwrFund, us, 2)>>, <<>>, <<>>) :
        ts \in {0, 1}, us \in {0, TicksPerDay}}

\* PUT /prices/{price_id} with a PriceUpdate body
UpdatePriceRequests ==
    {Request("update_price", id, <<>>, date, price) :
        id \in 1..2, date \in {<<>>, <<0>>, <<1>>}, price \in {<<>>, <<2>>}}

\* DELETE /prices/{price_id}
DeletePriceRequests == {Request("delete_price", id, <<>>, <<>>, <<>>) : id \in 1..2}

\* POST /prices/fetch/{unit_trust_id}: rows holds what the provider
\* returns, each date as datetime.combine(fp.date, datetime.min.time()).
FetchPricesRequests ==
    {Request("fetch_prices_for_unit_trust", a, [k \in 1..n |-> PriceRow(a, At(k - 1, 0), 2)], <<>>, <<>>) :
        a \in {TwrFund}, n \in 1..2}

PriceRequests ==
    CreatePriceRequests \cup BulkCreateRequests \cup UpdatePriceRequests
        \cup DeletePriceRequests \cup FetchPricesRequests

InitPrices ==
    /\ price_table \in {{}, {StoredPrice(1, PriceRow(TwrFund, At(0, 1), 1))}}
    /\ requests \in [1..MaxRequests -> PriceRequests]
    /\ transaction_table = <<>>
    /\ history = [status |-> "idle", points |-> <<>>, days |-> 0]
    /\ performance = [status |-> "idle", days |-> 0]
    /\ portfolio_summary = [status |-> "idle"]
    /\ metrics_bundle = [status |-> "idle"]
    /\ transactions = <<>>
    /\ i = 0
    /\ buy_lots = <<>>
    /\ total_cost_basis = 0
    /\ per_fund_cost_basis = <<>>
    /\ fifo_pc = "idle"

Answered(r, status) == [r EXCEPT !.pc = "answered", !.status = status]
Checked(r, found) == [r EXCEPT !.pc = "checked", !.found = found]

PricesUnchanged ==
    UNCHANGED <<transaction_table, history, performance, portfolio_summary, metrics_bundle>>

\* create_price up to its commit: the UnitTrust query and the query for a
\* row of the same fund and datetime.
CreatePriceCheck(k) ==
    /\ requests[k].op = "create_price" /\ requests[k].pc = "received"
    /\ LET price == requests[k].rows[1]
           existing == {p \in price_table :
                           p.unit_trust_id = price.unit_trust_id /\ p.date = price.date}
       IN  requests' = [requests EXCEPT ![k] =
                           IF price.unit_trust_id \notin Assets THEN Answered(@, 404)
                           ELSE IF existing # {} THEN Answered(@, 400)
                           ELSE Checked(@, <<price>>)]
    /\ UNCHANGED price_table
    /\ PricesUnchanged
    /\ UNCHANGED fifo_vars

\* db.add(db_price); await db.commit(): the IntegrityError of the unique
\* constraint is not caught and the request is answered 500.
CreatePriceCommit(k) ==
    /\ requests[k].op = "create_price" /\ requests[k].pc = "checked"
    /\ LET after == Inserted(price_table, requests[k].found)
       IN  IF UniqueFundDatetime(after)
           THEN /\ price_table' = after
                /\ requests' = [requests EXCEPT ![k] = Answered(@, 201)]
           ELSE /\ price_table' = price_table
                /\ requests' = [requests EXCEPT ![k] = Answered(@, 500)]
    /\ PricesUnchanged
    /\ UNCHANGED fifo_vars

\* bulk_create_prices up to its commit: new_prices are the rows of the
\* body whose (fund, datetime) no stored row has.
BulkCreateCheck(k) ==
    /\ requests[k].op = "bulk_create_prices" /\ requests[k].pc = "received"
    /\ LET prices == requests[k].rows
           existing_dates == {<<p.unit_trust_id, p.date>> : p \in price_table}
           new_prices == SelectSeq(prices, LAMBDA p : <<p.unit_trust_id, p.date>> \notin existing_dates)
       IN  requests' = [requests EXCEPT ![k] =
                           IF \E j \in DOMAIN prices : prices[j].unit_trust_id \notin Assets
                           THEN Answered(@, 404)
                           ELSE Checked(@, new_prices)]
    /\ UNCHANGED price_table
    /\ PricesUnchanged
    /\ UNCHANGED fifo_vars

\* db.add_all(new_prices); await db.commit()
BulkCreateCommit(k) ==
    /\ requests[k].op = "bulk_create_prices" /\ requests[k].pc = "checked"
    /\ LET after == Inserted(price_table, requests[k].found)
       IN  IF UniqueFundDatetime(after)
           THEN /\ price_table' = after
                /\ requests' = [requests EXCEPT ![k] = Answered(@, 201)]
           ELSE /\ price_table' = price_table
                /\ requests' = [requests EXCEPT ![k] = Answered(@, 500)]
    /\ PricesUnchanged
    /\ UNCHANGED fifo_vars

\* fetch_prices_for_unit_trust up to its commit: the provider's prices
\* whose date is not the date of a stored row of the fund at midnight of
\* one of the fetched dates.
FetchPricesCheck(k) ==
    /\ requests[k].op = "fetch_prices_for_unit_trust" /\ requests[k].pc = "received"
    /\ LET fetched_prices == requests[k].rows
           midnights == {fetched_prices[j].date : j \in DOMAIN fetched_prices}
           existing_dates == {DateOf(p.date) : p \in {q \in price_table :
                                 q.unit_trust_id = requests[k].id /\ q.date \in midnights}}
           new_prices == SelectSeq(fetched_prices, LAMBDA fp : DateOf(fp.date) \notin existing_dates)
       IN  requests' = [requests EXCEPT ![k] =
                           IF requests[k].id \notin Assets THEN Answered(@, 404)
                           ELSE IF new_prices = <<>> THEN Answered(@, 200)
                           ELSE Checked(@, new_prices)]
    /\ UNCHANGED price_table
    /\ PricesUnchanged
    /\ UNCHANGED fifo_vars

\* if new_prices: await db.commit()
FetchPricesCommit(k) ==
    /\ requests[k].op = "fetch_prices_for_unit_trust" /\ requests[k].pc = "checked"
    /\ LET after == Inserted(price_table, requests[k].found)
       IN  IF UniqueFundDatetime(after)
           THEN /\ price_table' = after
                /\ requests' = [requests EXCEPT ![k] = Answered(@, 200)]
           ELSE /\ price_table' = price_table
                /\ requests' = [requests EXCEPT ![k] = Answered(@, 500)]
    /\ PricesUnchanged
    /\ UNCHANGED fifo_vars

\* update_price and delete_price up to their commit: the row of the id.
PriceRead(k) ==
    /\ requests[k].op \in {"update_price", "delete_price"} /\ requests[k].pc = "received"
    /\ LET rows == {p \in price_table : p.id = requests[k].id}
       IN  requests' = [requests EXCEPT ![k] =
                           IF rows = {} THEN Answered(@, 404)
                           ELSE Checked(@, <<CHOOSE p \in rows : TRUE>>)]
    /\ UNCHANGED price_table
    /\ PricesUnchanged
    /\ UNCHANGED fifo_vars

\* setattr of the fields that are set, then await db.commit(): the UPDATE
\* by primary key fails when the row is gone (StaleDataError) and when it
\* breaks the unique constraint (IntegrityError); neither is caught.
UpdatePriceCommit(k) ==
    /\ requests[k].op = "update_price" /\ requests[k].pc = "checked"
    /\ LET rows == {p \in price_table : p.id = requests[k].id}
           row == CHOOSE p \in rows : TRUE
           dated == IF requests[k].date = <<>> THEN row
                    ELSE [row EXCEPT !.date = requests[k].date[1]]
           updated == IF requests[k].price = <<>> THEN dated
                      ELSE [dated EXCEPT !.price = requests[k].price[1]]
           after == (price_table \ rows) \cup {updated}
       IN  IF rows # {} /\ UniqueFundDatetime(after)
           THEN /\ price_table' = after
                /\ requests' = [requests EXCEPT ![k] = Answered(@, 200)]
           ELSE /\ price_table' = price_table
                /\ requests' = [requests EXCEPT ![k] = Answered(@, 500)]
    /\ PricesUnchanged
    /\ UNCHANGED fifo_vars

\* await db.delete(db_price); await db.commit().  When the row is gone the
\* DELETE matches nothing: the answer is 204 or, if the session raises, 500.
DeletePriceCommit(k) ==
    /\ requests[k].op = "delete_price" /\ requests[k].pc = "checked"
    /\ price_table' = {p \in price_table : p.id # requests[k].id}
    /\ \E status \in {204, 500} :
          /\ status = 500 => price_table' = price_table
          /\ requests' = [requests EXCEPT ![k] = Answered(@, status)]
    /\ PricesUnchanged
    /\ UNCHANGED fifo_vars

NextPrices ==
    \E k \in 1..MaxRequests :
        \/ CreatePriceCheck(k) \/ CreatePriceCommit(k)
        \/ BulkCreateCheck(k) \/ BulkCreateCommit(k)
        \/ FetchPricesCheck(k) \/ FetchPricesCommit(k)
        \/ PriceRead(k) \/ UpdatePriceCommit(k) \/ DeletePriceCommit(k)

SpecPrices == InitPrices /\ [][NextPrices]_vars

----------------------------------------------------------------------------
(* app/api/transactions.py: create_transaction.                            *)

\* TransactionCreate: transaction_type and notes are <<>> when the body
\* omits them.
TransactionCreates ==
    [unit_trust_id : Assets \cup {UnknownFund}, transaction_type : {<<>>, <<"buy">>, <<"sell">>},
     units : {UnitScale}, transaction_date : PriceTimes, notes : {<<>>, <<"note">>}]

\* The schema's defaults: transaction_type = 'buy', notes = None.
Validated(body) ==
    [body EXCEPT !.transaction_type = IF @ = <<>> THEN "buy" ELSE @[1],
                 !.notes = IF @ = <<>> THEN None ELSE @]

\* Transaction(unit_trust_id=..., units=..., price_per_unit=price.price,
\* transaction_date=...): the columns of app/models/transaction.py; the
\* table has no column for transaction_type or notes, and the handler
\* passes neither.
StoredTransaction(id, transaction, price) ==
    [id |-> id, unit_trust_id |-> transaction.unit_trust_id, units |-> transaction.units,
     price_per_unit |-> price.price, transaction_date |-> transaction.transaction_date]

\* TransactionResponse (from_attributes) of a stored row: the fields the
\* row lacks take the schema's defaults.
TransactionResponse(row) ==
    [id |-> row.id, unit_trust_id |-> row.unit_trust_id, transaction_type |-> "buy",
     units |-> row.units, price_per_unit |-> row.price_per_unit,
     transaction_date |-> row.transaction_date, notes |-> None]

StoredPriceTables ==
    {{StoredPrice(k, <<PriceRow(1, At(0, 0), 100), PriceRow(1, At(1, 0), 110),
                       PriceRow(2, At(0, 1), 50)>>[k]) : k \in K} : K \in SUBSET (1..3)}

InitTransactions ==
    /\ price_table \in StoredPriceTables
    /\ requests = <<>>
    /\ transaction_table = <<>>
    /\ history = [status |-> "idle", points |-> <<>>, days |-> 0]
    /\ performance = [status |-> "idle", days |-> 0]
    /\ portfolio_summary = [status |-> "idle"]
    /\ metrics_bundle = [status |-> "idle"]
    /\ transactions = <<>>
    /\ i = 0
    /\ buy_lots = <<>>
    /\ total_cost_basis = 0
    /\ per_fund_cost_basis = <<>>
    /\ fifo_pc = "idle"

CreateTransaction(body) ==
    /\ Len(requests) < MaxRequests
    /\ LET transaction == Validated(body)
           found == {p \in price_table : /\ p.unit_trust_id = transaction.unit_trust_id
                                         /\ p.date = transaction.transaction_date}
           db_transaction == StoredTransaction(Len(transaction_table) + 1, transaction,
                                               CHOOSE p \in found : TRUE)
           answer(status, response) ==
               [op |-> "create_transaction", pc |-> "answered", status |-> status,
                body |-> body, response |-> response]
       IN  IF transaction.unit_trust_id \notin Assets
           THEN /\ requests' = Append(requests, answer(404, <<>>))
                /\ UNCHANGED transaction_table
           ELSE IF found = {}
           THEN /\ requests' = Append(requests, answer(400, <<>>))
                /\ UNCHANGED transaction_table
           ELSE /\ transaction_table' = Append(transaction_table, db_transaction)
                /\ requests' = Append(requests, answer(201, <<TransactionResponse(db_transaction)>>))
    /\ UNCHANGED <<price_table, history, performance, portfolio_summary, metrics_bundle>>
    /\ UNCHANGED fifo_vars

NextTransactions == \E body \in TransactionCreates : CreateTransaction(body)

SpecTransactions == InitTransactions /\ [][NextTransactions]_vars

----------------------------------------------------------------------------
(* One GET /portfolio/performance with write requests in flight.           *)
(* get_portfolio_performance awaits get_portfolio_summary, then            *)
(* get_portfolio_history, then its own transaction query; the session      *)
(* opens no transaction for its SELECTs, so each reads what is committed   *)
(* when it runs, and the commit of another request's session can fall      *)
(* between two of them.  requests[1] is the performance request            *)
(*   [op, pc, days, summary, outcome, seen, response]                      *)
(* with pc "received" | "summary" | "history" | "answered" and seen the    *)
(* store as it was at each of its reads; the others are writes             *)
(*   [op, pc, at, row]                                                     *)
(* that have passed their checks and commit in one step.                   *)

SnapshotTransactionTable == <<TransactionRow(TwrFund, "buy", UnitScale, 1, At(0, 0))>>
SnapshotPriceTable == {PriceRow(TwrFund, At(0, 0), 1), PriceRow(TwrFund, At(1, 0), 2)}

TransactionWrites ==
    {[op |-> "create_transaction", pc |-> "received", at |-> 0,
      row |-> <<TransactionRow(TwrFund, type, UnitScale, 2, At(1, 0))>>] : type \in TxnTypes}
    \cup {[op |-> "update_transaction", pc |-> "received", at |-> 1,
           row |-> <<TransactionRow(TwrFund, "buy", 2 * UnitScale, 1, At(0, 0))>>],
          [op |-> "delete_transaction", pc |-> "received", at |-> 1, row |-> <<>>]}

PriceWrites ==
    {[op |-> "create_price", pc |-> "received", at |-> 0,
      row |-> <<PriceRow(TwrFund, At(Today, 0), 3)>>],
     [op |-> "update_price", pc |-> "received", at |-> At(1, 0),
      row |-> <<PriceRow(TwrFund, At(1, 0), 3)>>],
     [op |-> "delete_price", pc |-> "received", at |-> At(1, 0), row |-> <<>>]}

PerformanceRequest(days) ==
    [op |-> "get_portfolio_performance", pc |-> "received", days |-> days,
     summary |-> <<>>, outcome |-> <<>>, seen |-> <<>>, response |-> <<>>]

InitSnapshot ==
    /\ transaction_table = SnapshotTransactionTable
    /\ price_table = SnapshotPriceTable
    /\ \E days \in 1..MaxLookback, w1, w2 \in TransactionWrites \cup PriceWrites :
          requests = <<PerformanceRequest(days), w1, w2>>
    /\ history = [status |-> "idle", points |-> <<>>, days |-> 0]
    /\ performance = [status |-> "idle", days |-> 0]
    /\ portfolio_summary = [status |-> "idle"]
    /\ metrics_bundle = [status |-> "idle"]
    /\ transactions = <<>>
    /\ i = 0
    /\ buy_lots = <<>>
    /\ total_cost_basis = 0
    /\ per_fund_cost_basis = <<>>
    /\ fifo_pc = "idle"

Store == [transaction_table |-> transaction_table, price_table |-> price_table]

SnapshotUnchanged == UNCHANGED <<history, performance, portfolio_summary, metrics_bundle>>

\* summary = await PerformanceService.get_portfolio_summary(db)
ReadSummary ==
    /\ requests[1].pc = "received"
    /\ requests' = [requests EXCEPT ![1] =
                       [@ EXCEPT !.pc = "summary",
                                 !.summary = <<PortfolioSummaryOf(transaction_table, price_table)>>,
                                 !.seen = Append(@, Store)]]
    /\ UNCHANGED store_vars
    /\ SnapshotUnchanged
    /\ UNCHANGED fifo_vars

\* history = await PerformanceService.get_portfolio_history(db, days)
ReadHistory ==
    /\ requests[1].pc = "summary"
    /\ requests' = [requests EXCEPT ![1] =
                       [@ EXCEPT !.pc = "history",
                                 !.outcome = <<PortfolioHistoryOf(transaction_table, price_table,
                                                                  Today, requests[1].days)>>,
                                 !.seen = Append(@, Store)]]
    /\ UNCHANGED store_vars
    /\ SnapshotUnchanged
    /\ UNCHANGED fifo_vars

\* txn_result = await db.execute(txn_query) and the rest of the handler
ReadTransactions ==
    /\ requests[1].pc = "history"
    /\ \E txns \in OrdersByDate(transaction_table), xirr \in XirrOutcomes :
          requests' = [requests EXCEPT ![1] =
                          [@ EXCEPT !.pc = "answered",
                                    !.response = <<PerformanceFrom(requests[1].summary[1],
                                                                   requests[1].outcome[1], txns, Today,
                                                                   requests[1].days, xirr)>>,
                                    !.seen = Append(@, Store)]]
    /\ UNCHANGED store_vars
    /\ SnapshotUnchanged
    /\ UNCHANGED fifo_vars

\* await db.commit() of create_transaction, update_transaction or
\* delete_transaction
CommitTransactionWrite(k) ==
    /\ requests[k].op \in {"create_transaction", "update_transaction", "delete_transaction"}
    /\ requests[k].pc = "received"
    /\ LET at == requests[k].at
       IN  transaction_table' =
               IF requests[k].op = "create_transaction"
               THEN Append(transaction_table, requests[k].row[1])
               ELSE IF at \notin DOMAIN transaction_table THEN transaction_table
               ELSE IF requests[k].op = "update_transaction"
               THEN [transaction_table EXCEPT ![at] = requests[k].row[1]]
               ELSE [j \in 1..(Len(transaction_table) - 1) |->
                        IF j < at THEN transaction_table[j] ELSE transaction_table[j + 1]]
    /\ requests' = [requests EXCEPT ![k].pc = "answered"]
    /\ UNCHANGED price_table
    /\ SnapshotUnchanged
    /\ UNCHANGED fifo_vars

\* await db.commit() of create_price, update_price or delete_price
CommitPriceWrite(k) ==
    /\ requests[k].op \in {"create_price", "update_price", "delete_price"}
    /\ requests[k].pc = "received"
    /\ LET at == requests[k].at
           others == {p \in price_table : p.date # at}
       IN  price_table' =
               IF requests[k].op = "create_price"
               THEN IF \E p \in price_table : p.date = requests[k].row[1].date
                    THEN price_table
                    ELSE price_table \cup {requests[k].row[1]}
               ELSE IF others = price_table THEN price_table
               ELSE IF requests[k].op = "update_price" THEN others \cup {requests[k].row[1]}
               ELSE others
    /\ requests' = [requests EXCEPT ![k].pc = "answered"]
    /\ UNCHANGED transaction_table
    /\ SnapshotUnchanged
    /\ UNCHANGED fifo_vars

NextSnapshot ==
    \/ ReadSummary
    \/ ReadHistory
    \/ ReadTransactions
    \/ \E k \in 2..3 : CommitTransactionWrite(k) \/ CommitPriceWrite(k)

SpecSnapshot == InitSnapshot /\ [][NextSnapshot]_vars

----------------------------------------------------------------------------
(* Reference quantities for the claims about the FIFO ledger.  They are    *)
(* computed from the argument list alone, never from buy_lots.             *)

\* Units of all transactions of the given type and fund among the first k.
RECURSIVE UnitsOfType(_, _, _)
UnitsOfType(a, type, k) ==
    IF k = 0 THEN 0
    ELSE UnitsOfType(a, type, k - 1)
         + (IF transactions[k].unit_trust_id = a /\ transactions[k].txn_type = type
            THEN transactions[k].units ELSE 0)

Bought(a, k) == UnitsOfType(a, "buy", k)
Sold(a, k) == UnitsOfType(a, "sell", k)

\* Every sell of fund a among the first k was covered when it happened.
Covered(a, k) == \A j \in 0..k : Sold(a, j) <= Bought(a, j)

\* The buys of fund a among the first k, as <<units, price>> in list order.
RECURSIVE BuysOf(_, _)
BuysOf(a, k) ==
    IF k = 0 THEN <<>>
    ELSE IF transactions[k].unit_trust_id = a /\ transactions[k].txn_type = "buy"
         THEN Append(BuysOf(a, k - 1), <<transactions[k].units, transactions[k].price_per_unit>>)
         ELSE BuysOf(a, k - 1)

\* The n most recently bought units of a list of buys, each at its own price,
\* collected from the newest buy backwards.
RECURSIVE MostRecent(_, _)
MostRecent(buys, n) ==
    IF n <= 0 \/ buys = <<>> THEN <<>>
    ELSE LET last == buys[Len(buys)]
             front == SubSeq(buys, 1, Len(buys) - 1)
         IN  IF last[1] >= n THEN << <<n, last[2]>> >>
             ELSE Append(MostRecent(front, n - last[1]), last)

RECURSIVE SumUnits(_)
SumUnits(q) == IF q = <<>> THEN 0 ELSE Head(q)[1] + SumUnits(Tail(q))

RECURSIVE CostOf(_)
CostOf(q) == IF q = <<>> THEN 0 ELSE Head(q)[1] * Head(q)[2] + CostOf(Tail(q))

\* Units a fund holds after the first k transactions when a sell can take
\* no more than what is there.
RECURSIVE ClampedNet(_, _)
ClampedNet(a, k) ==
    IF k = 0 THEN 0
    ELSE LET t == transactions[k]
             before == ClampedNet(a, k - 1)
         IN  IF t.unit_trust_id # a THEN before
             ELSE IF t.txn_type = "buy" THEN before + t.units
             ELSE IF t.units >= before THEN 0 ELSE before - t.units

\* The lots of fund a when only a's own transactions among the first k are
\* processed, the other funds' transactions being absent.
RECURSIVE OwnLots(_, _)
OwnLots(a, k) ==
    IF k = 0 THEN <<>>
    ELSE LET t == transactions[k]
         IN  IF t.unit_trust_id # a THEN OwnLots(a, k - 1)
             ELSE IF t.txn_type = "buy"
                  THEN Append(OwnLots(a, k - 1), <<t.units, t.price_per_unit>>)
                  ELSE ConsumeLots(OwnLots(a, k - 1), t.units)

ReturnedCost(a) == IF a \in DOMAIN per_fund_cost_basis THEN per_fund_cost_basis[a] ELSE 0

RefCost(a) == CostOf(MostRecent(BuysOf(a, Len(transactions)),
                                Bought(a, Len(transactions)) - Sold(a, Len(transactions))))

C2_FifoOrder ==
    /\ \A a \in Assets : LotsOf(buy_lots, a) = OwnLots(a, i)
    /\ \A a \in Assets :
          Covered(a, i) =>
              LotsOf(buy_lots, a) = MostRecent(BuysOf(a, i), Bought(a, i) - Sold(a, i))
    /\ fifo_pc = "done" =>
          \A a \in Assets :
              Covered(a, i) =>
                  ReturnedCost(a) = CostOf(MostRecent(BuysOf(a, i), Bought(a, i) - Sold(a, i)))

\* C2 witness: buy, buy at another price, then a sell of the same asset that
\* takes the whole first lot and part of the second (the scaled-down form of
\* buy 100@10, buy 50@15, sell 120 leaving 30@15), with the result returned.
C2_Witness ==
    /\ fifo_pc = "done"
    /\ Len(transactions) = 3
    /\ LET t1 == transactions[1]
           t2 == transactions[2]
           t3 == transactions[3]
       IN  /\ t1.txn_type = "buy" /\ t2.txn_type = "buy" /\ t3.txn_type = "sell"
           /\ t1.unit_trust_id = t2.unit_trust_id /\ t2.unit_trust_id = t3.unit_trust_id
           /\ t1.price_per_unit # t2.price_per_unit
           /\ t3.units > t1.units /\ t3.units < t1.units + t2.units
           /\ buy_lots[t1.unit_trust_id]
                = << <<t1.units + t2.units - t3.units, t2.price_per_unit>> >>
           /\ total_cost_basis = (t1.units + t2.units - t3.units) * t2.price_per_unit

\* C3: oversell is dropped silently.  A sell of more units than the asset's
\* lots hold (a sell before any buy included) is processed like any other
\* step, leaves the asset without lots, and its excess is discarded: the
\* units in the lots always equal the running count in which a sell takes at
\* most what is there, so a later buy is held in full.
C3_OversellDropped ==
    /\ (fifo_pc = "loop" /\ i < Len(transactions)) => ENABLED (FifoBuy \/ FifoSell)
    /\ \A a \in Assets : SumUnits(LotsOf(buy_lots, a)) = ClampedNet(a, i)
    /\ \A a \in Assets : \A k \in 1..Len(LotsOf(buy_lots, a)) : LotsOf(buy_lots, a)[k][1] > 0
    /\ i > 0 =>
          LET t == transactions[i]
          IN  (t.txn_type = "sell" /\ t.units > ClampedNet(t.unit_trust_id, i - 1)) =>
                  LotsOf(buy_lots, t.unit_trust_id) = <<>>

\* C3 witness: an oversell (here a sell before any buy of the asset) followed
\* by a buy of the same asset, which the lots hold in full.
C3_Witness ==
    /\ i >= 2
    /\ LET s == transactions[i - 1]
           b == transactions[i]
       IN  /\ s.txn_type = "sell" /\ b.txn_type = "buy"
           /\ s.unit_trust_id = b.unit_trust_id
           /\ s.units > ClampedNet(s.unit_trust_id, i - 2)
           /\ buy_lots[b.unit_trust_id] = << <<b.units, b.price_per_unit>> >>

----------------------------------------------------------------------------
(* Reference quantities for the claims about the equity curve.  Units and  *)
(* prices by date are read off the tables directly, not off the pivots.    *)

\* Units of fund a held as of day d: signed units of its rows dated <= d.
RefUnits(ttable, a, d) ==
    SumOver(DOMAIN ttable,
            [k \in DOMAIN ttable |->
                IF ttable[k].unit_trust_id = a /\ DateOf(ttable[k].transaction_date) <= d
                THEN (IF ttable[k].transaction_type = "buy" THEN ttable[k].units
                      ELSE 0 - ttable[k].units)
                ELSE 0])

\* The Price Point of fund a with the greatest date <= d in the full price
\* history, 0 when there is none.
RefPrice(ptable, a, d) ==
    LET known == {p \in ptable : p.unit_trust_id = a /\ DateOf(p.date) <= d}
    IN  IF known = {} THEN 0
        ELSE (CHOOSE p \in known : \A q \in known : q.date <= p.date).price

\* The price the curve multiplies fund a's units by on day d (0 for none),
\* for tables from which a curve is computed.
UsedPrice(ttable, ptable, a, d) ==
    LET txns == OrderByDate(ttable)
        prices == FetchedPrices(txns, ptable)
        price == PricesPivot(prices, a, AllDatesStart(txns, prices), d)
    IN  IF price = <<>> THEN 0 ELSE price[1]

\* The value the curve computation gives day d for the given tables.
ValueOn(ttable, ptable, d) ==
    LET txns == OrderByDate(ttable)
        prices == FetchedPrices(txns, ptable)
    IN  PortfolioValue(txns, prices, AllDatesStart(txns, prices), d)

FirstTxnDay(ttable) == SetMin(TxnDates(ttable))

CurveDates(h) == {h.points[k].date : k \in DOMAIN h.points}
ValueAt(h, d) == (CHOOSE pt \in {h.points[k] : k \in DOMAIN h.points} : pt.date = d).value

Returned == history.status = "returned" /\ history.points # <<>>

C5_ForwardFill ==
    Returned =>
        \A k \in DOMAIN history.points :
            LET d == history.points[k].date
            IN  history.points[k].value
                  = SumOver(Assets,
                            [a \in Assets |->
                                Max(0, RefUnits(transaction_table, a, d))
                                * RefPrice(price_table, a, d)])

C7_WindowRestriction ==
    history.status = "returned" =>
        /\ \A k \in DOMAIN history.points :
              /\ history.points[k].date >= Today - history.days
              /\ history.points[k].date <= Today
        /\ Len(history.points) <= history.days + 1


----------------------------------------------------------------------------
(* Reference quantities for the claims about the summary, read off the     *)
(* rows of the tables.                                                     *)

RECURSIVE RefSeqSum(_)
RefSeqSum(q) == IF q = <<>> THEN 0 ELSE Head(q) + RefSeqSum(Tail(q))

RefRowsOfType(type) == SelectSeq(transaction_table, LAMBDA t : t.transaction_type = type)

RefAmountOfType(type) ==
    LET rows == RefRowsOfType(type)
    IN  RefSeqSum([k \in DOMAIN rows |-> rows[k].units * rows[k].price_per_unit])

RefUnitsOfType(a, type) ==
    LET rows == SelectSeq(RefRowsOfType(type), LAMBDA t : t.unit_trust_id = a)
    IN  RefSeqSum([k \in DOMAIN rows |-> rows[k].units])

RefNetUnits(a) == RefUnitsOfType(a, "buy") - RefUnitsOfType(a, "sell")

RefHeld == {a \in Assets : RefNetUnits(a) > 0}

\* The price of the most recent Price Point of asset a among rows, 0 for none.
RefMostRecent(rows, a) ==
    IF \E p \in rows : p.unit_trust_id = a
    THEN LET p == CHOOSE r \in rows :
                     /\ r.unit_trust_id = a
                     /\ \A q \in rows : q.unit_trust_id = a => q.date <= r.date
         IN  p.price
    ELSE 0

RefValue(rows) == SumOver(RefHeld, [a \in RefHeld |-> RefNetUnits(a) * RefMostRecent(rows, a)])

\* The last tick of today: every moment of the call is on or before it.
Now == At(Today, TicksPerDay - 1)

C12_LatestPriceUpToNow ==
    portfolio_summary.status = "returned" =>
        portfolio_summary.value.current_value = RefValue({p \in price_table : p.date <= Now})

\* The buys that can be added to a log.
CandidateBuys ==
    {TransactionRow(a, "buy", u, 1, At(d, tod)) :
        a \in Assets, u \in HistoryUnitValues, d \in 0..MaxDay, tod \in TimesOfDay}

\* The curve of the log with the buy b added, for the same days argument.
WithBuy(b) == PortfolioHistoryOf(Append(transaction_table, b), price_table, Today, history.days)

Orderings(ttable) ==
    LET n == Len(ttable)
        bijections == {f \in [1..n -> 1..n] : \A j, k \in 1..n : f[j] = f[k] => j = k}
    IN  {[k \in 1..n |-> ttable[f[k]]] : f \in bijections}

\* Signed units of the rows of fund a on day d.
DayNet(ttable, a, d) == RefUnits(ttable, a, d) - RefUnits(ttable, a, d - 1)

\* The table with the rows of fund a on day d replaced by one row of their
\* summed signed units (a buy when positive, a sell when negative).
Merged(ttable, a, d) ==
    LET rest == SelectSeq(ttable, LAMBDA t : ~(t.unit_trust_id = a /\ DateOf(t.transaction_date) = d))
        net == DayNet(ttable, a, d)
    IN  IF net > 0 THEN Append(rest, TransactionRow(a, "buy", net, 1, At(d, 0)))
        ELSE Append(rest, TransactionRow(a, "sell", 0 - net, 1, At(d, 0)))

RowsOn(ttable, a, d) ==
    {k \in DOMAIN ttable : ttable[k].unit_trust_id = a /\ DateOf(ttable[k].transaction_date) = d}

----------------------------------------------------------------------------
(* Claims about calculate_metrics.  Called is the call that has returned,  *)
(* Bundle what it returned.                                                *)

MetricsReturned == metrics_bundle.status = "returned"
Called == metrics_bundle
Bundle == metrics_bundle.value

\* The positive-value points of the history argument, in date order, read
\* off the argument date by date.
RefPositiveDates == {h.date : h \in {g \in {Called.history[k] : k \in DOMAIN Called.history} : g.value > 0}}

RefValueOn(d) == (CHOOSE h \in {Called.history[k] : k \in DOMAIN Called.history} : h.date = d).value

RefTxnDates == {Called.transaction_dates[k] : k \in DOMAIN Called.transaction_dates}

\* C13: for every input, the degenerate ones included, net_return is
\* (current_value + total_withdrawn - total_invested) / total_invested when
\* total_invested > 0 and 0 otherwise, unrealized_roi is
\* (current_value - cost_basis) / cost_basis when cost_basis > 0 and 0
\* otherwise, and both are what the call returns for the same four amounts
\* with an empty history, no transaction dates and no cash flows.
C13_ReturnIdentities ==
    MetricsReturned =>
        /\ Bundle.net_return.den > 0
        /\ Bundle.unrealized_roi.den > 0
        /\ IF Called.total_invested > 0
           THEN Bundle.net_return.num * Called.total_invested
                  = (Called.current_value + Called.total_withdrawn - Called.total_invested)
                    * Bundle.net_return.den
           ELSE Bundle.net_return.num = 0
        /\ IF Called.cost_basis > 0
           THEN Bundle.unrealized_roi.num * Called.cost_basis
                  = (Called.current_value - Called.cost_basis) * Bundle.unrealized_roi.den
           ELSE Bundle.unrealized_roi.num = 0
        /\ LET bare == CalculateMetrics(<<>>, <<>>, <<>>, Called.total_invested,
                                        Called.total_withdrawn, Called.current_value,
                                        Called.cost_basis, Called.risk_free_rate, Today, "none")
           IN  /\ Bundle.net_return = bare.net_return
               /\ Bundle.unrealized_roi = bare.unrealized_roi

\* C13 witness: a call on a curve with statistics, transaction dates and
\* cash flows that returns a net return of 2/2 and an unrealized ROI of 1/2.
C13_Witness ==
    /\ MetricsReturned
    /\ Bundle.statistics
    /\ Called.transaction_dates # <<>>
    /\ Called.cash_flows # <<>>
    /\ Called.total_invested = 2 /\ Called.total_withdrawn = 1
    /\ Called.current_value = 3 /\ Called.cost_basis = 2
    /\ Bundle.net_return = Ratio(2, 2)
    /\ Bundle.unrealized_roi = Ratio(1, 2)

\* C14: when the history has fewer than two points with value > 0 (empty,
\* all zero, or a single positive point), the call returns daily_return 0,
\* volatility 0, max_drawdown 0 and None for sharpe_ratio, twr_annualized,
\* mwr_annualized, best_day and worst_day, whatever the cash flows and the
\* solver are.
C14_DegenerateBundle ==
    (MetricsReturned /\ Cardinality(RefPositiveDates) < 2) =>
        /\ Bundle.daily_return = Q(0, 1)
        /\ Bundle.volatility = Volatility(FALSE, Q(0, 1))
        /\ Bundle.max_drawdown = Q(0, 1)
        /\ Bundle.sharpe_ratio = None
        /\ Bundle.twr_annualized = None
        /\ Bundle.mwr_annualized = None
        /\ Bundle.best_day = None
        /\ Bundle.worst_day = None

\* C14 witness: a history of several points of which one is positive, with
\* cash flows of both signs and a solver that would return a finite rate.
C14_Witness ==
    /\ MetricsReturned
    /\ Len(Called.history) >= 3
    /\ Cardinality(RefPositiveDates) = 1
    /\ MwrSeries(Called.cash_flows, Called.current_value, Today) # <<>>
    /\ Called.xirr = "finite"
    /\ Bundle.mwr_annualized = None
    /\ Bundle.volatility = Volatility(FALSE, Q(0, 1))

\* The positive-value dates in ascending order, and the date before d among
\* them.
RefCurveDates == SortedDates(RefPositiveDates)

RefPreviousDate(d) == SetMax({e \in RefPositiveDates : e < d})

\* The day-over-day change recorded on date d: value / previous
\* positive-value point - 1.
RefChangeOn(d) == Q(RefValueOn(d) - RefValueOn(RefPreviousDate(d)), RefValueOn(RefPreviousDate(d)))

\* The dates whose change enters the statistics: positive-value dates
\* after the first that are not transaction dates.
RefCountedDates ==
    SortedDates({d \in RefPositiveDates : d \notin RefTxnDates /\ d # SetMin(RefPositiveDates)})

RefCountedChanges == [k \in DOMAIN RefCountedDates |-> RefChangeOn(RefCountedDates[k])]

\* C15: with at least two positive-value points, daily_return, volatility,
\* best_day and worst_day are the mean, the annualized sample deviation,
\* the maximum and the minimum of exactly the changes recorded on the
\* positive-value dates that are not transaction dates; the change of a
\* transaction date is left out and the change of the day after it,
\* measured from the transaction day's value, is kept.
C15_TransactionDayExclusion ==
    (MetricsReturned /\ Cardinality(RefPositiveDates) >= 2) =>
        IF RefCountedChanges = <<>>
        THEN /\ Bundle.daily_return = Q(0, 1)
             /\ Bundle.volatility = Volatility(FALSE, Q(0, 1))
             /\ Bundle.best_day = None
             /\ Bundle.worst_day = None
        ELSE /\ Bundle.daily_return = Mean(RefCountedChanges)
             /\ Bundle.volatility = StdTimesSqrt252(RefCountedChanges)
             /\ Bundle.best_day = <<RMax(RefCountedChanges)>>
             /\ Bundle.worst_day = <<RMin(RefCountedChanges)>>

\* C15 witness: a curve 1, 3, 2, 2 with a transaction on its second date:
\* the jump of +200% is left out, the fall of -1/3 on the day after and the
\* flat last day are kept.
C15_Witness ==
    /\ MetricsReturned
    /\ Called.history = <<[date |-> 0, value |-> 1], [date |-> 1, value |-> 3],
                          [date |-> 2, value |-> 2], [date |-> 3, value |-> 2]>>
    /\ RefTxnDates = {1}
    /\ Bundle.best_day = <<Q(0, 1)>>
    /\ Bundle.worst_day = <<Q(0 - 1, 3)>>
    /\ Bundle.daily_return = Q(0 - 1, 6)
    /\ ~Bundle.volatility.nan
    /\ Bundle.volatility.squared.num > 0

\* The highest value seen on the positive-value dates up to d, and the
\* drawdown on d.
RefPeak(d) == SetMax({RefValueOn(e) : e \in {e \in RefPositiveDates : e <= d}})

RefDrawdown(d) == Q(RefValueOn(d) - RefPeak(d), RefPeak(d))

\* C16: max_drawdown is never above 0; with at least two positive-value
\* points it is the least, over all positive-value dates (transaction dates
\* included), of (value - highest value so far) / highest value so far, and
\* it is 0 exactly when no positive-value point is below an earlier one.
C16_MaxDrawdown ==
    MetricsReturned =>
        /\ Bundle.max_drawdown.num <= 0
        /\ Bundle.max_drawdown.den > 0
        /\ Cardinality(RefPositiveDates) >= 2 =>
              /\ \E d \in RefPositiveDates : Bundle.max_drawdown = RefDrawdown(d)
              /\ \A d \in RefPositiveDates : ~RLess(RefDrawdown(d), Bundle.max_drawdown)
              /\ (Bundle.max_drawdown.num = 0)
                    <=> (\A d, e \in RefPositiveDates : d < e => RefValueOn(d) <= RefValueOn(e))

\* C16 witness: the curve 2, 3, 1, 2 with a transaction on the day of its
\* peak has a drawdown of (1 - 3) / 3.
C16_Witness ==
    /\ MetricsReturned
    /\ Called.history = <<[date |-> 0, value |-> 2], [date |-> 1, value |-> 3],
                          [date |-> 2, value |-> 1], [date |-> 3, value |-> 2]>>
    /\ RefTxnDates = {1, 2}
    /\ Bundle.max_drawdown = Q(0 - 2, 3)

\* C18: the volatility that calculate_metrics returns is a number >= 0 and
\* never not-a-number, whatever the history and the transaction dates
\* leave for the statistic: no change, one change or more.
C18_VolatilityFinite ==
    MetricsReturned =>
        /\ ~Bundle.volatility.nan
        /\ Bundle.volatility.squared.num >= 0
        /\ Bundle.volatility.squared.den > 0

\* A curve of at least two points, all of one positive value.
RefConstantCurve ==
    /\ Len(Called.history) >= 2
    /\ Called.history[1].value > 0
    /\ \A k \in DOMAIN Called.history : Called.history[k].value = Called.history[1].value

\* C17: sharpe_ratio is None exactly when volatility is not above 0, and is
\* otherwise (daily_return x 252 - risk_free_rate) / volatility for the
\* risk_free_rate of the call; a constant-value curve of two or more points
\* gives volatility 0 and sharpe_ratio None.
C17_SharpeRatio ==
    MetricsReturned =>
        /\ (Bundle.sharpe_ratio = None) <=> ~VolatilityPositive(Bundle.volatility)
        /\ Bundle.sharpe_ratio # None =>
              /\ Bundle.sharpe_ratio[1].volatility = Bundle.volatility
              /\ Bundle.sharpe_ratio[1].excess
                    = RSub(RMul(Bundle.daily_return, Q(252, 1)), Called.risk_free_rate)
        /\ RefConstantCurve =>
              /\ Bundle.volatility = Volatility(FALSE, Q(0, 1))
              /\ Bundle.sharpe_ratio = None

\* The amounts the solver would see: those of the cash flows and, when
\* current_value > 0, the final inflow.
RefAmounts ==
    {Called.cash_flows[k][2] : k \in DOMAIN Called.cash_flows}
        \cup (IF Called.current_value > 0 THEN {Called.current_value} ELSE {})

RefBothSigns == (\E x \in RefAmounts : x < 0) /\ (\E x \in RefAmounts : x > 0)

\* C20: the call returns, with mwr_annualized None, whenever the cash-flow
\* list is empty, whenever the flows with the final inflow do not hold both
\* a negative and a positive amount, and whenever the solver raises,
\* returns None or returns a non-finite value.
C20_MwrNone ==
    (/\ MetricsReturned
     /\ (Called.cash_flows = <<>> \/ ~RefBothSigns \/ Called.xirr # "finite"))
        => Bundle.mwr_annualized = None

\* C20 witness: a call with statistics whose flows hold both signs and
\* whose solver raises.
C20_Witness ==
    /\ MetricsReturned
    /\ Bundle.statistics
    /\ Called.cash_flows # <<>>
    /\ RefBothSigns
    /\ Called.xirr = "raises"
    /\ Bundle.mwr_annualized = None

----------------------------------------------------------------------------
\* The time-weighted return of the request had the deposit been of u units
\* on day d, the prices and the first purchase being the same.
TwrWithDeposit(u, d) ==
    LET other == Deposited(price_table, u, d)
    IN  PortfolioPerformanceOf(other, other, price_table, TwrToday, TwrDays, "finite").metrics.twr_annualized

\* C19: for one fund with a fixed price series and a fixed first purchase,
\* twr_annualized is the same whatever the number of units of the
\* mid-period deposit and whatever the day of the deposit; a rise of 10%
\* before the deposit and a rise of 10% after it link to a total return of
\* 21%.
C19_TwrInsulated ==
    (performance.status = "returned" /\ Len(transaction_table) = 2) =>
        /\ \A u \in TwrDepositUnits, d \in TwrDepositDays :
              TwrWithDeposit(u, d) = performance.metrics.twr_annualized
        /\ (/\ PriceOfDay(price_table, 0) = 100
            /\ PriceOfDay(price_table, 1) = 110
            /\ PriceOfDay(price_table, 2) = 110
            /\ PriceOfDay(price_table, TwrToday) = 121)
              => performance.metrics.twr_annualized = <<Annualized(Q(121, 100), TwrToday)>>

----------------------------------------------------------------------------
\* C21: two calls of calculate_metrics on identical arguments return
\* bundles that are equal in every field, mwr_annualized included,
\* whenever the calls are made, and leave the arguments as they were.
C21_Deterministic ==
    metrics_bundle.status = "repeated" =>
        /\ metrics_bundle.value_again = metrics_bundle.value
        /\ metrics_bundle.arguments_again = metrics_bundle.arguments

----------------------------------------------------------------------------
\* C22: whatever requests of create_price, bulk_create_prices, provider
\* fetch, update_price and delete_price have run, and however they have
\* interleaved, the Price table holds at most one price per fund and
\* calendar date; a create_price is answered 201, or 400 for a duplicate
\* (404 for an unknown fund), and a bulk_create_prices is answered 201
\* having skipped what is present (404 for an unknown fund).
C22_PriceUniqueness ==
    /\ \A p, q \in price_table :
          (p.unit_trust_id = q.unit_trust_id /\ DateOf(p.date) = DateOf(q.date)) => p.id = q.id
    /\ \A k \in DOMAIN requests :
          /\ (requests[k].op = "create_price" /\ requests[k].pc = "answered")
                => requests[k].status \in {201, 400, 404}
          /\ (requests[k].op = "bulk_create_prices" /\ requests[k].pc = "answered")
                => requests[k].status \in {201, 404}

----------------------------------------------------------------------------
\* C23: a create_transaction answered 201 returns the transaction_type of
\* the request ('buy' when omitted), its notes, and as price_per_unit the
\* price of the fund on the transaction date, and has stored one row; a
\* request for an unknown fund is answered 404, one for a date without a
\* price 400, and neither stores a row.
C23_CreateTransaction ==
    /\ Len(transaction_table) = Cardinality({k \in DOMAIN requests : requests[k].status = 201})
    /\ \A k \in DOMAIN requests :
          LET body == requests[k].body
              priced == {p \in price_table : /\ p.unit_trust_id = body.unit_trust_id
                                             /\ p.date = body.transaction_date}
          IN  /\ requests[k].status = (IF body.unit_trust_id \notin Assets THEN 404
                                       ELSE IF priced = {} THEN 400 ELSE 201)
              /\ requests[k].status = 201 =>
                    /\ requests[k].response[1].transaction_type = Validated(body).transaction_type
                    /\ requests[k].response[1].notes = Validated(body).notes
                    /\ \E p \in priced : requests[k].response[1].price_per_unit = p.price

----------------------------------------------------------------------------
\* The transaction dates that are dates of positive-value points, the first
\* and last positive-value dates, and for a transaction date t the date
\* that ends its sub-period: the last positive-value date before the next
\* transaction date, or the last of the range.
RefRelevantTxnDates == RefTxnDates \cap RefPositiveDates

RefFirstDate == CHOOSE d \in RefPositiveDates : \A e \in RefPositiveDates : d <= e

RefLastDate == SetMax(RefPositiveDates)

RefSubPeriodEnd(t) ==
    LET later == {u \in RefRelevantTxnDates : u > t}
    IN  IF later = {} THEN RefLastDate
        ELSE RefPreviousDate(CHOOSE u \in later : \A w \in later : u <= w)

RECURSIVE RefSubPeriodProduct(_)
RefSubPeriodProduct(T) ==
    IF T = {} THEN Q(1, 1)
    ELSE LET t == CHOOSE u \in T : TRUE
         IN  RMul(Q(RefValueOn(RefSubPeriodEnd(t)), RefValueOn(t)), RefSubPeriodProduct(T \ {t}))

RefLinkedReturn ==
    IF RefRelevantTxnDates = {} THEN Q(RefValueOn(RefLastDate), RefValueOn(RefFirstDate))
    ELSE LET first_txn_date == CHOOSE t \in RefRelevantTxnDates : \A u \in RefRelevantTxnDates : t <= u
             before == IF first_txn_date > RefFirstDate
                       THEN Q(RefValueOn(RefPreviousDate(first_txn_date)), RefValueOn(RefFirstDate))
                       ELSE Q(1, 1)
         IN  RMul(before, RefSubPeriodProduct(RefRelevantTxnDates))

----------------------------------------------------------------------------
\* C25: the series handed to the solver starts with the cash flows of the
\* argument in their order; when current_value > 0 it ends with exactly one
\* more flow, of amount current_value, dated today if today is after the
\* latest cash-flow date and the day after that date otherwise, hence
\* after every cash flow; when current_value is 0 nothing is appended.
C25_LiquidationFlow ==
    (MetricsReturned /\ Bundle.mwr_annualized # None) =>
        LET series == Bundle.mwr_annualized[1].xirr
            flows == Called.cash_flows
            n == Len(flows)
            latest == SetMax({flows[k][1] : k \in DOMAIN flows})
        IN  /\ n > 0
            /\ \A k \in 1..n : series.dates[k] = flows[k][1] /\ series.amounts[k] = flows[k][2]
            /\ Len(series.dates) = Len(series.amounts)
            /\ IF Called.current_value > 0
               THEN /\ Len(series.dates) = n + 1
                    /\ series.amounts[n + 1] = Called.current_value
                    /\ series.dates[n + 1] = (IF Today > latest THEN Today ELSE latest + 1)
                    /\ \A k \in 1..n : series.dates[n + 1] > flows[k][1]
               ELSE Len(series.dates) = n

\* C25 witness: cash flows whose latest date is after today, with a
\* positive current value: the added inflow is dated the day after it.
C25_Witness ==
    /\ MetricsReturned
    /\ Bundle.mwr_annualized # None
    /\ Called.current_value = 3
    /\ Len(Called.cash_flows) = 2
    /\ Called.cash_flows[2][1] > Today
    /\ Bundle.mwr_annualized[1].xirr.dates = <<0, MaxDay, MaxDay + 1>>
    /\ Bundle.mwr_annualized[1].xirr.amounts = <<0 - 2, 1, 3>>

----------------------------------------------------------------------------
\* C26: the answer of one get_portfolio_performance call, its summary,
\* history and metrics together, is what the call returns on one single
\* state of the transaction and price tables, one that the store was in
\* at a read of the call, whatever writes are committed meanwhile.
C26_SnapshotConsistency ==
    requests[1].pc = "answered" =>
        \E j \in DOMAIN requests[1].seen :
            \E txns \in OrdersByDate(requests[1].seen[j].transaction_table), xirr \in XirrOutcomes :
                requests[1].response[1]
                    = PortfolioPerformanceOf(requests[1].seen[j].transaction_table, txns,
                                             requests[1].seen[j].price_table, Today,
                                             requests[1].days, xirr)

----------------------------------------------------------------------------
\* C27: after each processed transaction, oversold logs included, no lot
\* holds a negative number of units and the units in an asset's lots sum to
\* max(0, units bought so far - units sold so far), the net units that
\* get_portfolio_summary and the equity curve value.
C27_LotsAgreeWithHoldings ==
    \A a \in Assets :
        /\ \A k \in 1..Len(LotsOf(buy_lots, a)) : LotsOf(buy_lots, a)[k][1] >= 0
        /\ SumUnits(LotsOf(buy_lots, a)) = Max(0, Bought(a, i) - Sold(a, i))

----------------------------------------------------------------------------
\* The tables with every row moved to midnight of its calendar date.
RefAtMidnight(ts) == At(DateOf(ts), 0)

RefTransactionsAtMidnight ==
    [k \in DOMAIN transaction_table |->
        [transaction_table[k] EXCEPT !.transaction_date = RefAtMidnight(@)]]

RefPricesAtMidnight == {[p EXCEPT !.date = RefAtMidnight(@)] : p \in price_table}

\* C28: the equity curve depends on the calendar dates of the transactions
\* and prices alone: what get_portfolio_history returns is what it returns
\* for the same rows with every time of day set to midnight.
C28_TimeOfDayIrrelevant ==
    history.status # "idle" =>
        LET outcome == PortfolioHistoryOf(RefTransactionsAtMidnight, RefPricesAtMidnight,
                                          Today, history.days)
        IN  /\ history.status = outcome.status
            /\ history.points = outcome.points

----------------------------------------------------------------------------
\* C29: when one get_portfolio_performance call returns a non-empty
\* history, the value of its point dated today is the current_value of its
\* summary.
C29_CurveMeetsSummary ==
    (performance.status = "returned" /\ performance.history # <<>>) =>
        \E k \in DOMAIN performance.history :
            /\ performance.history[k].date = Today
            /\ performance.history[k].value = performance.summary.current_value

----------------------------------------------------------------------------
\* The daily returns that calculate_metrics keeps for its statistics in the
\* call that has returned, and the growth they compound to.
RefStatisticsReturns ==
    ValidReturns(SelectSeq(SortByDate(Called.history), LAMBDA h : h.value > 0), RefTxnDates)

RefCompounded == RProd([k \in DOMAIN RefStatisticsReturns |-> RAdd(Q(1, 1), RefStatisticsReturns[k])])

====
